---- MODULE Spec2Model ----
(***************************************************************************)
(* ripenv: envelope encryption of .env files.                              *)
(*                                                                         *)
(* Byte strings are sequences of integers 0..255 and keep the sizes the    *)
(* code fixes (32-byte keys, 24-byte nonces, 16-byte salts).  The          *)
(* primitives the code calls in PyNaCl and argon2-cffi are modelled by     *)
(* small arithmetic functions that keep their contract on the byte strings *)
(* of the model: a keyed authenticator over nonce and ciphertext, a        *)
(* Diffie-Hellman exchange in a group of prime order, a deterministic      *)
(* password hash.  Everything the repository's own code does with them     *)
(* (lengths checked, nonce placement, base64, exception handling) is       *)
(* modelled step by step.                                                  *)
(***************************************************************************)
EXTENDS Integers, Sequences, FiniteSets, TLC

VARIABLES
    box,        \* the last secretbox_encrypt call: arguments, nonce drawn, result
    wire,       \* the payload bytes as stored or transmitted after that call
    unbox,      \* the last secretbox_decrypt call: arguments, result
    fs,         \* file system: path -> file content, or NoFile
    dirs,       \* file system: the directories that exist
    created,    \* the last create_keyfile call
    kfile,      \* the KeyFile object at hand after that call
    unlocked,   \* the last unlock_private_key call
    built,      \* the last build_manifest call
    unsealed,   \* the last sealedbox_unwrap call
    encrypted,  \* the last run of the encrypt command
    decrypted,  \* the last run of the decrypt command
    boxes,      \* the secretbox_encrypt calls made so far, in order
    drawn,      \* the values the random source has returned so far
    validated   \* the last construction or load of a RecipientsExport or Manifest

vars == <<box, wire, unbox, fs, dirs, created, kfile, unlocked, built, unsealed,
          encrypted, decrypted, boxes, drawn, validated>>

NoCall == [op |-> "none"]
NoFile == <<"absent">>
File(content) == <<"file", content>>

(***************************************************************************)
(* Results: a returned value or a raised exception (class and message).    *)
(***************************************************************************)
Ok(v) == [exc |-> "none", val |-> v]
Raise(cls, msg) == [exc |-> cls, msg |-> msg]
IsOk(r) == r.exc = "none"

\* Python's `except cls`: the exception classes and their bases.
Bases(cls) ==
    CASE cls = "binascii.Error"  -> {"binascii.Error", "ValueError", "Exception"}
      [] cls = "ValueError"      -> {"ValueError", "Exception"}
      [] cls = "CryptoError"     -> {"CryptoError", "Exception"}
      [] cls = "nacl.ValueError" -> {"nacl.ValueError", "ValueError", "CryptoError", "Exception"}
      [] cls = "nacl.TypeError"  -> {"nacl.TypeError", "TypeError", "CryptoError", "Exception"}
      [] cls = "HashingError"    -> {"HashingError", "Argon2Error", "Exception"}
      [] cls = "ValidationError" -> {"ValidationError", "ValueError", "Exception"}
      [] OTHER                   -> {cls, "Exception"}

Caught(r, cls) == r.exc # "none" /\ cls \in Bases(r.exc)

(***************************************************************************)
(* Byte strings.                                                           *)
(***************************************************************************)
Take(s, n) == SubSeq(s, 1, n)
Drop(s, n) == SubSeq(s, n + 1, Len(s))
Fill(n, b) == [i \in 1..n |-> b]

RECURSIVE Poly(_, _)
\* A polynomial checksum modulo the prime 65537: two byte strings of one
\* length that differ in a single position have different checksums.
Poly(s, n) == IF n = 0 THEN 7 ELSE (Poly(s, n - 1) * 263 + s[n] + 1) % 65537

Digest(s) == Poly(s, Len(s))

\* len bytes that spell out the checksum h.
Expand(h, len) ==
    [j \in 1..len |-> IF j % 2 = 1 THEN (h + 13 * j) % 256
                      ELSE ((h \div 256) + 13 * j) % 256]

\* A byte string of the model's inputs, one for each seed.
Gen(seed, len) ==
    [i \in 1..len |-> (97 * seed + i * (seed + 2) + seed * ((i * i) % 7)) % 256]

(***************************************************************************)
(* Codec: base64 text is a sequence of characters, each the value 0..63 of *)
(* its place in the URL-safe alphabet, B64Pad for '=', and B64Other for a  *)
(* character outside the alphabet.                                         *)
(***************************************************************************)
B64Pad == 64
B64Other == 65

RECURSIVE urlsafe_b64encode(_)
urlsafe_b64encode(d) ==
    IF Len(d) = 0 THEN <<>>
    ELSE IF Len(d) = 1 THEN
        <<d[1] \div 4, (d[1] % 4) * 16, B64Pad, B64Pad>>
    ELSE IF Len(d) = 2 THEN
        <<d[1] \div 4, (d[1] % 4) * 16 + d[2] \div 16, (d[2] % 16) * 4, B64Pad>>
    ELSE
        <<d[1] \div 4, (d[1] % 4) * 16 + d[2] \div 16,
          (d[2] % 16) * 4 + d[3] \div 64, d[3] % 64>> \o urlsafe_b64encode(Drop(d, 3))

RECURSIVE DecodeSextets(_)
\* The bytes that a run of data characters holds: three for each full group
\* of four, two for a last group of three, one for a last group of two.
DecodeSextets(c) ==
    IF Len(c) < 2 THEN <<>>
    ELSE IF Len(c) = 2 THEN <<c[1] * 4 + c[2] \div 16>>
    ELSE IF Len(c) = 3 THEN <<c[1] * 4 + c[2] \div 16, (c[2] % 16) * 16 + c[3] \div 4>>
    ELSE <<c[1] * 4 + c[2] \div 16, (c[2] % 16) * 16 + c[3] \div 4, (c[3] % 4) * 64 + c[4]>>
         \o DecodeSextets(Drop(c, 4))

IsData(ch) == ch < B64Pad

\* binascii.a2b_base64 without strict mode, as urlsafe_b64decode calls it.
\* Characters outside the alphabet are skipped.  Reading stops at a '=' that
\* completes a group: the first '=' after three data characters of a group,
\* the second '=' after two.  When the input ends inside a group the call
\* raises binascii.Error.
a2b_base64(s) ==
    LET DataBefore(i) == Len(SelectSeq(Take(s, i - 1), IsData))
        LastData(i)   == IF \E j \in 1..(i - 1) : IsData(s[j])
                         THEN CHOOSE j \in 1..(i - 1) :
                                  IsData(s[j]) /\ \A k \in (j + 1)..(i - 1) : ~IsData(s[k])
                         ELSE 0
        PadsBefore(i) == Cardinality({j \in (LastData(i) + 1)..(i - 1) : s[j] = B64Pad})
        Stops(i)      == /\ s[i] = B64Pad
                         /\ (DataBefore(i) % 4) >= 2
                         /\ (DataBefore(i) % 4) + PadsBefore(i) + 1 >= 4
        Stop          == IF \E i \in 1..Len(s) : Stops(i)
                         THEN CHOOSE i \in 1..Len(s) : Stops(i) /\ \A j \in 1..(i - 1) : ~Stops(j)
                         ELSE Len(s) + 1
        data          == SelectSeq(Take(s, Stop - 1), IsData)
    IN  IF Stop <= Len(s) \/ Len(data) % 4 = 0 THEN Ok(DecodeSextets(data))
        ELSE IF Len(data) % 4 = 1 THEN
            Raise("binascii.Error",
                  "Invalid base64-encoded string: number of data characters cannot be 1 more than a multiple of 4")
        ELSE Raise("binascii.Error", "Incorrect padding")

urlsafe_b64decode(s) == a2b_base64(s)

b64e(data) == urlsafe_b64encode(data)

\* b64d handing the text to the decoder as it is.
b64d_NoPadding(data) == urlsafe_b64decode(data)

b64d(data) ==
    LET padding == Fill((0 - Len(data)) % 4, B64Pad)
    IN  urlsafe_b64decode(data \o padding)

(***************************************************************************)
(* Payload cipher.  SecretBox of PyNaCl: encrypt(plaintext, nonce) returns *)
(* a message whose ciphertext is the 16-byte authenticator followed by the *)
(* encrypted bytes; decrypt verifies the authenticator under the key and   *)
(* the nonce and raises CryptoError when it does not verify.               *)
(***************************************************************************)
SECRETBOX_NONCE_SIZE == 24
KEY_LENGTH == 32
MACBYTES == 16

CryptoFailed == Raise("CryptoError", "Decryption failed. Ciphertext failed verification")

Stream(key, nonce) == (3 * Digest(key) + 5 * Digest(nonce)) % 256

Mac(key, nonce, ct) ==
    Expand((3 * Digest(key) + 5 * Digest(nonce) + 7 * Digest(ct)) % 65537, MACBYTES)

SecretBox_encrypt(key, plaintext, nonce) ==
    LET k  == Stream(key, nonce)
        ct == [i \in 1..Len(plaintext) |-> (plaintext[i] + k + 7 * i) % 256]
    IN  Mac(key, nonce, ct) \o ct

SecretBox_decrypt(key, ciphertext, nonce) ==
    IF Len(ciphertext) < MACBYTES THEN CryptoFailed
    ELSE LET tag == Take(ciphertext, MACBYTES)
             ct  == Drop(ciphertext, MACBYTES)
             k   == Stream(key, nonce)
         IN  IF tag # Mac(key, nonce, ct) THEN CryptoFailed
             ELSE Ok([i \in 1..Len(ct) |-> (ct[i] - k - 7 * i) % 256])

\* secretbox_encrypt returning the ciphertext without the nonce in front.
secretbox_encrypt_NoNonce(key, plaintext, nonce) ==
    IF Len(key) # KEY_LENGTH THEN Raise("ValueError", "SecretBox key must be 32 bytes")
    ELSE Ok(SecretBox_encrypt(key, plaintext, nonce))

\* secretbox_encrypt that computes its nonce from the plaintext and leaves
\* the value of the random source unused.
secretbox_encrypt_ContentNonce(key, plaintext, nonce) ==
    IF Len(key) # KEY_LENGTH THEN Raise("ValueError", "SecretBox key must be 32 bytes")
    ELSE LET derived == Expand(Digest(plaintext), SECRETBOX_NONCE_SIZE)
         IN  Ok(derived \o SecretBox_encrypt(key, plaintext, derived))

\* nonce is what random(SECRETBOX_NONCE_SIZE) returned in this call.
secretbox_encrypt(key, plaintext, nonce) ==
    IF Len(key) # KEY_LENGTH THEN Raise("ValueError", "SecretBox key must be 32 bytes")
    ELSE Ok(nonce \o SecretBox_encrypt(key, plaintext, nonce))

\* secretbox_decrypt with its length check asking for more than the nonce.
secretbox_decrypt_LongCheck(key, payload) ==
    IF Len(key) # KEY_LENGTH THEN Raise("ValueError", "SecretBox key must be 32 bytes")
    ELSE IF Len(payload) <= SECRETBOX_NONCE_SIZE + MACBYTES THEN
        Raise("ValueError", "Payload too short to contain nonce")
    ELSE SecretBox_decrypt(key, Drop(payload, SECRETBOX_NONCE_SIZE),
                           Take(payload, SECRETBOX_NONCE_SIZE))

secretbox_decrypt(key, payload) ==
    IF Len(key) # KEY_LENGTH THEN Raise("ValueError", "SecretBox key must be 32 bytes")
    ELSE IF Len(payload) < SECRETBOX_NONCE_SIZE THEN
        Raise("ValueError", "Payload too short to contain nonce")
    ELSE LET nonce      == Take(payload, SECRETBOX_NONCE_SIZE)
             ciphertext == Drop(payload, SECRETBOX_NONCE_SIZE)
         IN  SecretBox_decrypt(key, ciphertext, nonce)

(***************************************************************************)
(* Key derivation.  A password is a sequence of code points; encode gives  *)
(* its UTF-8 bytes.  hash_secret_raw of argon2-cffi is deterministic in    *)
(* secret and salt, returns hash_len bytes and refuses a salt shorter than *)
(* eight bytes.                                                            *)
(***************************************************************************)
ARGON2_MIN_SALT_LENGTH == 8
SALT_LENGTH == 16

RECURSIVE encode_utf8(_)
encode_utf8(str) ==
    IF Len(str) = 0 THEN <<>>
    ELSE LET c == str[1]
             b == IF c < 128 THEN <<c>>
                  ELSE IF c < 2048 THEN <<192 + (c \div 64), 128 + (c % 64)>>
                  ELSE <<224 + (c \div 4096), 128 + ((c \div 64) % 64), 128 + (c % 64)>>
         IN  b \o encode_utf8(Drop(str, 1))

hash_secret_raw(secret, salt, hash_len) ==
    IF Len(salt) < ARGON2_MIN_SALT_LENGTH THEN Raise("HashingError", "Salt is too short")
    ELSE Ok(Expand((3 * Digest(secret) + 5 * Digest(salt)) % 65537, hash_len))

\* argon2id_kek hashing the salt alone.
argon2id_kek_NoPassword(password, salt) == hash_secret_raw(<<>>, salt, KEY_LENGTH)

argon2id_kek(password, salt) ==
    LET password_bytes == encode_utf8(password)
    IN  hash_secret_raw(password_bytes, salt, KEY_LENGTH)

(***************************************************************************)
(* Keypairs and the recipient sealer.  PrivateKey and PublicKey of PyNaCl  *)
(* hold 32 bytes.  The public key is the generator raised to the scalar of *)
(* the private key, in the subgroup of prime order 83 of the integers      *)
(* modulo 167; a sealed box carries the public half of a one-time keypair  *)
(* and a SecretBox message under the key both sides derive from the        *)
(* exchange.                                                               *)
(***************************************************************************)
GroupModulus == 167
GroupOrder == 83
GroupGenerator == 4
PUBLICKEY_SIZE == 32

RECURSIVE PowMod(_, _)
PowMod(b, e) ==
    IF e = 0 THEN 1
    ELSE LET h == PowMod(b, e \div 2)
         IN  IF e % 2 = 0 THEN (h * h) % GroupModulus
             ELSE (((h * h) % GroupModulus) * b) % GroupModulus

Scalar(sk) == 1 + (Digest(sk) % (GroupOrder - 1))
PointBytes(e) == [j \in 1..PUBLICKEY_SIZE |-> (e * j) % GroupModulus]
PublicOf(sk) == PointBytes(PowMod(GroupGenerator, Scalar(sk)))
Shared(sk, pk) == PowMod(pk[1] % GroupModulus, Scalar(sk))
BoxKey(sk, pk) == Expand(Shared(sk, pk), KEY_LENGTH)
SealNonce(epk, pk) ==
    Expand((Digest(epk) + 3 * Digest(pk)) % 65537, SECRETBOX_NONCE_SIZE)

\* sk is what PrivateKey.generate() drew.
generate_keypair(sk) == <<sk, PublicOf(sk)>>

PrivateKey(private_key) ==
    IF Len(private_key) # KEY_LENGTH THEN
        Raise("nacl.TypeError", "PrivateKey must be created from a 32 bytes long raw secret key")
    ELSE Ok(private_key)

PublicKey(public_key) ==
    IF Len(public_key) # PUBLICKEY_SIZE THEN
        Raise("nacl.ValueError", "The public key must be exactly 32 bytes long")
    ELSE Ok(public_key)

SealFailed == Raise("CryptoError", "An error occurred trying to decrypt the message")

\* esk is the one-time private key the sealed box drew.
SealedBox_encrypt(pk, data, esk) ==
    LET epk == PublicOf(esk)
    IN  epk \o SecretBox_encrypt(BoxKey(esk, pk), data, SealNonce(epk, pk))

SealedBox_decrypt(sk, data) ==
    IF Len(data) < PUBLICKEY_SIZE + MACBYTES THEN SealFailed
    ELSE LET epk == Take(data, PUBLICKEY_SIZE)
             got == SecretBox_decrypt(BoxKey(sk, epk), Drop(data, PUBLICKEY_SIZE),
                                      SealNonce(epk, PublicOf(sk)))
         IN  IF IsOk(got) THEN got ELSE SealFailed

\* sealedbox_wrap that seals to whatever bytes it is given.
sealedbox_wrap_Unchecked(pk_bytes, data, esk) == Ok(SealedBox_encrypt(pk_bytes, data, esk))

sealedbox_wrap(pk_bytes, data, esk) ==
    LET pk == PublicKey(pk_bytes)
    IN  IF ~IsOk(pk) THEN pk ELSE Ok(SealedBox_encrypt(pk.val, data, esk))

sealedbox_unwrap(sk, data) == SealedBox_decrypt(sk, data)

(***************************************************************************)
(* Key manager.  A KeyFile is a record of its four fields; what is written *)
(* to a file is its JSON text, the members in the order of the fields.     *)
(***************************************************************************)
KDF_TAG == "argon2id"

\* KeyFile with kdf a plain str field.
KeyFile_AnyKdf(publicKey, encPrivateKey, salt, kdf) ==
    IF Len(publicKey) < 1 \/ Len(encPrivateKey) < 1 \/ Len(salt) < 1
    THEN Raise("ValidationError", "validation error for KeyFile")
    ELSE Ok([publicKey |-> publicKey, encPrivateKey |-> encPrivateKey,
             salt |-> salt, kdf |-> kdf])

KeyFile(publicKey, encPrivateKey, salt, kdf) ==
    IF Len(publicKey) < 1 \/ Len(encPrivateKey) < 1 \/ Len(salt) < 1 \/ kdf # KDF_TAG
    THEN Raise("ValidationError", "validation error for KeyFile")
    ELSE Ok([publicKey |-> publicKey, encPrivateKey |-> encPrivateKey,
             salt |-> salt, kdf |-> kdf])

model_dump_json(keyfile) ==
    << <<"publicKey", keyfile.publicKey>>, <<"encPrivateKey", keyfile.encPrivateKey>>,
       <<"salt", keyfile.salt>>, <<"kdf", keyfile.kdf>> >>

\* Paths are sequences of names; Parents(p) are the directories above p.
Parents(path) == {Take(path, n) : n \in 0..(Len(path) - 1)}
IsFile(files, path) == path \in DOMAIN files /\ files[path][1] = "file"

\* path.parent.mkdir(parents=True, exist_ok=True)
mkdir_parents(path, files, directories) ==
    IF \E d \in Parents(path) : IsFile(files, d)
    THEN Raise("FileExistsError", "File exists")
    ELSE Ok(directories \cup Parents(path))

\* path.write_text(text)
write_text(path, text, files, directories) ==
    IF path \in directories THEN Raise("IsADirectoryError", "Is a directory")
    ELSE IF \E d \in Parents(path) : d \notin directories
    THEN Raise("FileNotFoundError", "No such file or directory")
    ELSE Ok([files EXCEPT ![path] = File(text)])

\* new_keyfile deriving the KEK from half of the salt it stores.
new_keyfile_HalfSalt(password, sk, salt, nonce) ==
    LET pair        == generate_keypair(sk)
        kek         == argon2id_kek(password, Take(salt, ARGON2_MIN_SALT_LENGTH))
        enc_private == IF IsOk(kek) THEN secretbox_encrypt(kek.val, pair[1], nonce) ELSE kek
    IN  IF ~IsOk(enc_private) THEN enc_private
        ELSE KeyFile(b64e(pair[2]), b64e(enc_private.val), b64e(salt), KDF_TAG)

\* The record create_keyfile assembles before it touches the file system;
\* sk, salt and nonce are what generate_keypair, os.urandom(16) and
\* secretbox_encrypt drew.
new_keyfile(password, sk, salt, nonce) ==
    LET pair        == generate_keypair(sk)
        sk_bytes    == pair[1]
        pk_bytes    == pair[2]
        kek         == argon2id_kek(password, salt)
        enc_private == IF IsOk(kek) THEN secretbox_encrypt(kek.val, sk_bytes, nonce) ELSE kek
    IN  IF ~IsOk(enc_private) THEN enc_private
        ELSE KeyFile(b64e(pk_bytes), b64e(enc_private.val), b64e(salt), KDF_TAG)

\* create_keyfile returning the record without writing it.
create_keyfile_NoWrite(keyfile, out_path, files, directories) ==
    [ret |-> keyfile, fs |-> files, dirs |-> directories]

\* create_keyfile from the assembled record on: the result, and the file
\* system it leaves.
create_keyfile(keyfile, out_path, files, directories) ==
    LET made    == IF IsOk(keyfile) THEN mkdir_parents(out_path, files, directories)
                   ELSE keyfile
        written == IF IsOk(made)
                   THEN write_text(out_path, model_dump_json(keyfile.val), files, made.val)
                   ELSE made
    IN  [ret  |-> IF IsOk(written) THEN keyfile ELSE written,
         fs   |-> IF IsOk(written) THEN written.val ELSE files,
         dirs |-> IF IsOk(keyfile) /\ IsOk(made) THEN made.val ELSE directories]

UnlockFailed ==
    Raise("ValueError", "Unable to decrypt private key; check password and file integrity")
UnsupportedKdf == Raise("ValueError", "Unsupported KDF in keyfile")

\* The kdf check left out.
unsupported_kdf_Never(keyfile) == FALSE

\* The first test of unlock_private_key.
unsupported_kdf(keyfile) == keyfile.kdf # KDF_TAG

\* The result of unlock_private_key and the calls it made on the way.
unlock_private_key(password, keyfile) ==
    IF unsupported_kdf(keyfile) THEN [ret |-> UnsupportedKdf, calls |-> <<>>]
    ELSE
    LET salt == b64d(keyfile.salt) IN
    IF ~IsOk(salt) THEN [ret |-> salt, calls |-> <<"b64d">>]
    ELSE
    LET enc_private == b64d(keyfile.encPrivateKey) IN
    IF ~IsOk(enc_private) THEN [ret |-> enc_private, calls |-> <<"b64d", "b64d">>]
    ELSE
    LET kek == argon2id_kek(password, salt.val) IN
    IF ~IsOk(kek) THEN [ret |-> kek, calls |-> <<"b64d", "b64d", "argon2id_kek">>]
    ELSE
    LET sk_bytes == secretbox_decrypt(kek.val, enc_private.val)
        calls    == <<"b64d", "b64d", "argon2id_kek", "secretbox_decrypt">>
    IN  IF Caught(sk_bytes, "CryptoError") THEN [ret |-> UnlockFailed, calls |-> calls]
        ELSE IF ~IsOk(sk_bytes) THEN [ret |-> sk_bytes, calls |-> calls]
        ELSE [ret |-> PrivateKey(sk_bytes.val), calls |-> Append(calls, "PrivateKey")]

(***************************************************************************)
(* Records of types.py and the envelope builder.  A validated email is the *)
(* address with its domain in lower case.                                  *)
(***************************************************************************)
MANIFEST_VERSION == 1
MANIFEST_ALGO == "xsalsa20poly1305"

EmailStr(value) ==
    CASE value = "bob@Example.COM" -> Ok("bob@example.com")
      [] value = "not-an-email"    -> Raise("ValidationError", "value is not a valid email address")
      [] OTHER                     -> Ok(value)

Recipient(email, publicKey) ==
    LET e == EmailStr(email)
    IN  IF ~IsOk(e) THEN e
        ELSE IF Len(publicKey) < 1 THEN Raise("ValidationError", "validation error for Recipient")
        ELSE Ok([email |-> e.val, publicKey |-> publicKey])

Emails(value) == {value[i].email : i \in 1..Len(value)}

\* RecipientsExport without the validator of its recipients field.
RecipientsExport_NoValidator(projectId, recipients) ==
    IF Len(projectId) < 1 THEN Raise("ValidationError", "validation error for RecipientsExport")
    ELSE Ok([projectId |-> projectId, recipients |-> recipients])

RecipientsExport(projectId, recipients) ==
    IF Len(projectId) < 1 THEN Raise("ValidationError", "validation error for RecipientsExport")
    ELSE IF Cardinality(Emails(recipients)) # Len(recipients)
    THEN Raise("ValidationError", "Duplicate recipient emails detected")
    ELSE Ok([projectId |-> projectId, recipients |-> recipients])

ManifestRecipient(email, publicKey, wrappedKey) ==
    LET e == EmailStr(email)
    IN  IF ~IsOk(e) THEN e
        ELSE IF Len(publicKey) < 1 \/ Len(wrappedKey) < 1
        THEN Raise("ValidationError", "validation error for ManifestRecipient")
        ELSE Ok([email |-> e.val, publicKey |-> publicKey, wrappedKey |-> wrappedKey])

\* Manifest without the validator of its recipients field.
Manifest_NoValidator(projectId, recipients) ==
    IF Len(projectId) < 1 THEN Raise("ValidationError", "validation error for Manifest")
    ELSE Ok([version |-> MANIFEST_VERSION, projectId |-> projectId,
             algo |-> MANIFEST_ALGO, recipients |-> recipients])

Manifest(projectId, recipients) ==
    IF Len(projectId) < 1 THEN Raise("ValidationError", "validation error for Manifest")
    ELSE IF Len(recipients) = 0
    THEN Raise("ValidationError", "Manifest must contain at least one recipient")
    ELSE IF Cardinality(Emails(recipients)) # Len(recipients)
    THEN Raise("ValidationError", "Duplicate manifest recipient emails detected")
    ELSE Ok([version |-> MANIFEST_VERSION, projectId |-> projectId,
             algo |-> MANIFEST_ALGO, recipients |-> recipients])

\* One pass of the loop that stores the key itself in place of its sealed box.
wrap_recipient_Plain(recipient, fk, esk) ==
    LET pk_bytes == b64d(recipient.publicKey)
    IN  IF ~IsOk(pk_bytes) THEN pk_bytes
        ELSE ManifestRecipient(recipient.email, recipient.publicKey, b64e(fk))

\* One pass of the loop of build_manifest; esk is the one-time key that the
\* sealed box of this recipient drew.
wrap_recipient(recipient, fk, esk) ==
    LET pk_bytes == b64d(recipient.publicKey)
        wrapped  == IF IsOk(pk_bytes) THEN sealedbox_wrap(pk_bytes.val, fk, esk) ELSE pk_bytes
    IN  IF ~IsOk(wrapped) THEN wrapped
        ELSE ManifestRecipient(recipient.email, recipient.publicKey, b64e(wrapped.val))

RECURSIVE wrap_recipients_Reversed(_, _, _, _, _)
\* The loop of build_manifest putting each entry in front of the list.
wrap_recipients_Reversed(recipients, fk, esks, i, manifest_recipients) ==
    IF i > Len(recipients) THEN Ok(manifest_recipients)
    ELSE LET entry == wrap_recipient(recipients[i], fk, esks[i])
         IN  IF ~IsOk(entry) THEN entry
             ELSE wrap_recipients_Reversed(recipients, fk, esks, i + 1,
                                           <<entry.val>> \o manifest_recipients)

RECURSIVE wrap_recipients(_, _, _, _, _)
\* The loop of build_manifest from recipient i on: the list appended to, or
\* the first exception raised.
wrap_recipients(recipients, fk, esks, i, manifest_recipients) ==
    IF i > Len(recipients) THEN Ok(manifest_recipients)
    ELSE LET entry == wrap_recipient(recipients[i], fk, esks[i])
         IN  IF ~IsOk(entry) THEN entry
             ELSE wrap_recipients(recipients, fk, esks, i + 1,
                                  Append(manifest_recipients, entry.val))

\* build_manifest sealing the file key for the first recipient's public key
\* in every entry.
build_manifest_FirstKey(project_id, fk, recipients, esks) ==
    LET inp   == recipients.recipients
        entry(i) == ManifestRecipient(inp[i].email, inp[i].publicKey,
                        b64e(sealedbox_wrap(b64d(inp[1].publicKey).val, fk, esks[i]).val)).val
    IN  Manifest(project_id, [i \in 1..Len(inp) |-> entry(i)])

build_manifest(project_id, fk, recipients, esks) ==
    LET manifest_recipients == wrap_recipients(recipients.recipients, fk, esks, 1, <<>>)
    IN  IF ~IsOk(manifest_recipients) THEN manifest_recipients
        ELSE Manifest(project_id, manifest_recipients.val)

(***************************************************************************)
(* Inputs of the payload cipher.                                           *)
(***************************************************************************)
NumKeys == 2
MaxPlainLen == 3

KeyOf(n) == Gen(n, KEY_LENGTH)
NonceOf(n) == Gen(n + 10, SECRETBOX_NONCE_SIZE)
EnvBytes == <<83, 61, 118, 10, 65, 61, 49, 10>>

GoodKeys == {KeyOf(n) : n \in 1..NumKeys}
Keys == GoodKeys \cup {Take(KeyOf(1), KEY_LENGTH - 1)}
Nonces == {NonceOf(1), NonceOf(2)}
Plaintexts == {Take(EnvBytes, n) : n \in 0..MaxPlainLen} \cup {<<0>>, <<255, 255>>}
Deltas == {1, 128, 255}

\* The payloads that differ from p in exactly one position.
Tampered(p) == {[p EXCEPT ![i] = (p[i] + d) % 256] : i \in 1..Len(p), d \in Deltas}
Truncated(p) == {Take(p, n) : n \in 0..(Len(p) - 1)}
DiffersInOnePlace(p, q) ==
    /\ Len(p) = Len(q)
    /\ Cardinality({i \in 1..Len(p) : p[i] # q[i]}) = 1

(***************************************************************************)
(* Inputs of the key manager.                                              *)
(***************************************************************************)
NumPasswords == 2
NumKeypairs == 2

PasswordOf(n) == <<83, 117, 112, 51, 114, 48 + n, 232 + n>>
Passwords == {PasswordOf(n) : n \in 1..NumPasswords}
SecretKeyOf(n) == Gen(20 + n, KEY_LENGTH)
SecretKeys == {SecretKeyOf(n) : n \in 1..NumKeypairs}
Salts == {Gen(41, SALT_LENGTH), Gen(42, SALT_LENGTH)}

TmpDir == <<"tmp">>
KeyPath == <<"tmp", "alice.enc.json">>
Paths == {KeyPath, <<"tmp", "keys", "bob.enc.json">>}

(***************************************************************************)
(* Inputs of the envelope builder: the members a directory may list, each  *)
(* with a keypair (dave holds the same keypair as alice), the one-time     *)
(* keys the sealed boxes draw, file keys and project ids.                  *)
(***************************************************************************)
MaxRecipients == 2

Members ==
    {[email |-> "alice@example.com", sk |-> SecretKeyOf(1)],
     [email |-> "bob@Example.COM",   sk |-> SecretKeyOf(2)],
     [email |-> "carol@example.com", sk |-> SecretKeyOf(3)],
     [email |-> "dave@example.com",  sk |-> SecretKeyOf(1)]}
MemberKeys == {m.sk : m \in Members}
RecipientOf(m) == Recipient(m.email, b64e(PublicOf(m.sk))).val
Pool == {RecipientOf(m) : m \in Members}

RecipientLists ==
    UNION {[1..n -> Pool] : n \in 0..MaxRecipients}
Exports(projectId) ==
    {RecipientsExport(projectId, l).val :
        l \in {r \in RecipientLists : IsOk(RecipientsExport(projectId, r))}}

\* Exports whose list was changed after validation so that two entries share
\* an email: RecipientsExport validates when it is constructed, not after.
AlteredExports(projectId) ==
    {[projectId |-> projectId, recipients |-> l] :
        l \in {r \in RecipientLists : ~IsOk(RecipientsExport(projectId, r))}}

ProjectIds == {"project-123", "project-456"}
FileKeys == {Gen(51, KEY_LENGTH), Gen(52, KEY_LENGTH)}
OneTimeKeys == {Gen(31, KEY_LENGTH), Gen(32, KEY_LENGTH)}
\* The draws of one build_manifest call, one for each recipient in turn.
OneTimeDraws ==
    {[i \in 1..(MaxRecipients + 1) |-> IF i % 2 = 1 THEN Gen(31, KEY_LENGTH) ELSE Gen(32, KEY_LENGTH)],
     [i \in 1..(MaxRecipients + 1) |-> Gen(32, KEY_LENGTH)]}

Init ==
    /\ box = NoCall
    /\ wire = <<>>
    /\ unbox = NoCall
    /\ fs = [p \in Paths |-> NoFile]
    /\ dirs = {<<>>, TmpDir}
    /\ created = NoCall
    /\ kfile = NoCall
    /\ unlocked = NoCall
    /\ built = NoCall
    /\ unsealed = NoCall
    /\ encrypted = NoCall
    /\ decrypted = NoCall
    /\ boxes = <<>>
    /\ drawn = {}
    /\ validated = NoCall

(***************************************************************************)
(* The payload cipher as called: encrypt, what may happen to the payload   *)
(* in storage, decrypt.                                                    *)
(***************************************************************************)
BoxFrame ==
    UNCHANGED <<fs, dirs, created, kfile, unlocked, built, unsealed,
                encrypted, decrypted, boxes, drawn, validated>>

\* Every call of secretbox_encrypt on the inputs of the model, with the nonce
\* it drew and its result.
EncryptCalls ==
    {[op |-> "secretbox_encrypt", key |-> key, plaintext |-> plaintext,
      nonce |-> nonce, ret |-> secretbox_encrypt(key, plaintext, nonce)] :
        key \in Keys, plaintext \in Plaintexts, nonce \in Nonces}

SecretboxEncrypt ==
    \E call \in EncryptCalls :
        /\ box' = call
        /\ wire' = IF IsOk(call.ret) THEN call.ret.val ELSE <<>>
        /\ unbox' = NoCall
        /\ BoxFrame

\* The stored payload is changed in one position, or cut short.
TamperPayload ==
    /\ box # NoCall /\ IsOk(box.ret) /\ wire = box.ret.val
    /\ \E p \in Tampered(wire) : wire' = p
    /\ unbox' = NoCall
    /\ UNCHANGED box
    /\ BoxFrame

TruncatePayload ==
    /\ box # NoCall /\ IsOk(box.ret) /\ wire = box.ret.val
    /\ \E p \in Truncated(wire) : wire' = p
    /\ unbox' = NoCall
    /\ UNCHANGED box
    /\ BoxFrame

SecretboxDecrypt ==
    /\ box # NoCall
    /\ \E key \in Keys :
        unbox' = [op |-> "secretbox_decrypt", key |-> key, payload |-> wire,
                  ret |-> secretbox_decrypt(key, wire)]
    /\ UNCHANGED <<box, wire>>
    /\ BoxFrame

NextBox == SecretboxEncrypt \/ TamperPayload \/ TruncatePayload \/ SecretboxDecrypt

SpecBox == Init /\ [][NextBox]_vars

\* C1: decrypting, under the same 32-byte key, the payload secretbox_encrypt
\* returned gives back exactly the plaintext, whatever nonce was drawn.
C1_RoundTrip ==
    (/\ unbox # NoCall /\ box # NoCall /\ IsOk(box.ret)
     /\ unbox.key = box.key /\ unbox.payload = box.ret.val)
        => unbox.ret = Ok(box.plaintext)

C1_Witness ==
    /\ unbox # NoCall /\ box # NoCall /\ IsOk(box.ret)
    /\ unbox.key = box.key /\ unbox.payload = box.ret.val
    /\ Len(box.plaintext) = MaxPlainLen
    /\ unbox.ret = Ok(box.plaintext)

\* C2: a payload that differs from the encrypted one in a single position,
\* in the nonce or in the ciphertext and tag, never decrypts under the key
\* that encrypted it: secretbox_decrypt raises CryptoError.
C2_TamperDetected ==
    (/\ unbox # NoCall /\ box # NoCall /\ IsOk(box.ret)
     /\ unbox.key = box.key /\ DiffersInOnePlace(unbox.payload, box.ret.val))
        => /\ ~IsOk(unbox.ret)
           /\ unbox.ret.exc = "CryptoError"

C2_Witness ==
    /\ unbox # NoCall /\ box # NoCall /\ IsOk(box.ret) /\ unbox.key = box.key
    /\ DiffersInOnePlace(unbox.payload, box.ret.val)
    /\ Len(box.plaintext) > 0
    /\ \E i \in 1..SECRETBOX_NONCE_SIZE : unbox.payload[i] # box.ret.val[i]
    /\ unbox.ret.exc = "CryptoError"

\* C3: secretbox_decrypt fails in one and the same way (exception class and
\* message) for a payload shorter than the nonce, for a payload whose tag
\* does not verify and for a wrong key.
C3_OneFailure ==
    (unbox # NoCall /\ Len(unbox.key) = KEY_LENGTH /\ ~IsOk(unbox.ret))
        => unbox.ret = CryptoFailed

(***************************************************************************)
(* The key manager as called: create_keyfile, what may happen to the       *)
(* KeyFile before it is used again, unlock_private_key.                    *)
(***************************************************************************)
KeyFrame ==
    UNCHANGED <<box, wire, unbox, built, unsealed, encrypted, decrypted, boxes, drawn,
                validated>>

\* Every record create_keyfile can assemble from the inputs of the model.
NewKeyfiles ==
    {[password |-> password, sk |-> sk, salt |-> salt, nonce |-> nonce,
      keyfile |-> new_keyfile(password, sk, salt, nonce)] :
        password \in Passwords, sk \in SecretKeys, salt \in Salts, nonce \in Nonces}

CreateKeyfile(paths) ==
    \E new \in NewKeyfiles, out_path \in paths :
        LET done == create_keyfile(new.keyfile, out_path, fs, dirs)
        IN  /\ created' = [op |-> "create_keyfile", password |-> new.password,
                           out_path |-> out_path, sk |-> new.sk, salt |-> new.salt,
                           ret |-> done.ret]
            /\ fs' = done.fs
            /\ dirs' = done.dirs
            /\ kfile' = IF IsOk(done.ret) THEN done.ret.val ELSE NoCall
            /\ unlocked' = NoCall
            /\ KeyFrame

\* The ways the KeyFile at hand is changed: another kdf tag; encPrivateKey
\* or salt with one byte changed or cut short; their text cut short.
Corrupted(keyfile) ==
    LET enc  == b64d(keyfile.encPrivateKey).val
        salt == b64d(keyfile.salt).val
    IN  {[keyfile EXCEPT !.kdf = "scrypt"]}
        \cup {[keyfile EXCEPT !.encPrivateKey = b64e([enc EXCEPT ![i] = (enc[i] + 1) % 256])] :
                i \in 1..Len(enc)}
        \cup {[keyfile EXCEPT !.encPrivateKey = b64e(Take(enc, n))] : n \in 1..(Len(enc) - 1)}
        \cup {[keyfile EXCEPT !.encPrivateKey = Take(keyfile.encPrivateKey, n)] :
                n \in {Len(keyfile.encPrivateKey) - 3, Len(keyfile.encPrivateKey) - 1}}
        \cup {[keyfile EXCEPT !.salt = b64e([salt EXCEPT ![i] = (salt[i] + 1) % 256])] :
                i \in 1..Len(salt)}
        \cup {[keyfile EXCEPT !.salt = b64e(Take(salt, n))] : n \in 1..(Len(salt) - 1)}
        \cup {[keyfile EXCEPT !.salt = Take(keyfile.salt, n)] :
                n \in {Len(keyfile.salt) - 3, Len(keyfile.salt) - 1}}

CorruptKeyfile ==
    /\ created # NoCall /\ IsOk(created.ret) /\ kfile = created.ret.val
    /\ \E k \in Corrupted(kfile) : kfile' = k
    /\ unlocked' = NoCall
    /\ UNCHANGED <<created, fs, dirs>>
    /\ KeyFrame

UnlockPrivateKey ==
    /\ kfile # NoCall
    /\ \E password \in Passwords :
        LET done == unlock_private_key(password, kfile)
        IN  unlocked' = [op |-> "unlock_private_key", password |-> password,
                         keyfile |-> kfile, ret |-> done.ret, calls |-> done.calls]
    /\ UNCHANGED <<created, kfile, fs, dirs>>
    /\ KeyFrame

NextKey == CreateKeyfile({KeyPath}) \/ CorruptKeyfile \/ UnlockPrivateKey

SpecKey == Init /\ [][NextKey]_vars

NextStore == CreateKeyfile(Paths)

SpecStore == Init /\ [][NextStore]_vars

Unlocking == unlocked # NoCall /\ created # NoCall /\ IsOk(created.ret)
UnlockingCreated == Unlocking /\ unlocked.keyfile = created.ret.val

\* C4: unlocking the KeyFile create_keyfile returned, with the password it
\* was created with, returns the private key generated at creation, the one
\* whose public key the KeyFile stores.
C4_KeyfileRoundTrip ==
    (UnlockingCreated /\ unlocked.password = created.password)
        => /\ unlocked.ret = Ok(created.sk)
           /\ b64e(PublicOf(unlocked.ret.val)) = unlocked.keyfile.publicKey

C4_Witness ==
    /\ UnlockingCreated /\ unlocked.password = created.password
    /\ unlocked.ret = Ok(created.sk)

\* C5: unlocking the KeyFile create_keyfile returned with another password
\* fails with the decryption failure of unlock_private_key and returns no key.
C5_WrongPassword ==
    (UnlockingCreated /\ unlocked.password # created.password)
        => unlocked.ret = UnlockFailed

C5_Witness ==
    /\ UnlockingCreated /\ unlocked.password # created.password
    /\ unlocked.ret = UnlockFailed

\* C6: on a KeyFile with the supported kdf tag, unlock_private_key fails in
\* one way only (same exception class, same message), whether the password
\* is wrong or encPrivateKey or salt are corrupted, truncation included.
C6_OneFailure ==
    (unlocked # NoCall /\ unlocked.keyfile.kdf = KDF_TAG /\ ~IsOk(unlocked.ret))
        => unlocked.ret = UnlockFailed

\* C7: on a KeyFile with another kdf tag unlock_private_key fails with
\* "Unsupported KDF in keyfile" before it decodes, derives or decrypts
\* anything, and that failure differs from the one of a wrong password.
C7_UnsupportedKdf ==
    (unlocked # NoCall /\ unlocked.keyfile.kdf # KDF_TAG)
        => /\ unlocked.ret = UnsupportedKdf
           /\ unlocked.calls = <<>>
           /\ unlocked.ret # UnlockFailed

C7_Witness ==
    /\ unlocked # NoCall /\ unlocked.keyfile.kdf # KDF_TAG
    /\ unlocked.password = created.password
    /\ unlocked.ret = UnsupportedKdf

ManifestFrame ==
    UNCHANGED <<box, wire, unbox, fs, dirs, created, kfile, unlocked,
                encrypted, decrypted, boxes, drawn, validated>>

BuildCalls ==
    {[op |-> "build_manifest", project_id |-> project_id, fk |-> fk,
      recipients |-> recipients, esks |-> esks,
      ret |-> build_manifest(project_id, fk, recipients, esks)] :
        project_id \in ProjectIds, fk \in FileKeys,
        recipients \in Exports("project-123") \cup AlteredExports("project-123"),
        esks \in OneTimeDraws}

BuildManifest ==
    \E call \in BuildCalls :
        /\ built' = call
        /\ unsealed' = NoCall
        /\ ManifestFrame

\* What decrypt does with an entry: decode wrappedKey, unwrap it.
unseal_entry(private_key, recipient) ==
    LET wrapped_fk == b64d(recipient.wrappedKey)
    IN  IF ~IsOk(wrapped_fk) THEN wrapped_fk
        ELSE sealedbox_unwrap(private_key, wrapped_fk.val)

UnsealEntry ==
    /\ built # NoCall /\ IsOk(built.ret)
    /\ \E sk \in MemberKeys, i \in 1..Len(built.ret.val.recipients) :
        unsealed' = [op |-> "sealedbox_unwrap", sk |-> sk, index |-> i,
                     ret |-> unseal_entry(sk, built.ret.val.recipients[i])]
    /\ UNCHANGED built
    /\ ManifestFrame

NextManifest == BuildManifest \/ UnsealEntry

SpecManifest == Init /\ [][NextManifest]_vars

DistinctKeypairs(recipients) ==
    \A i, j \in 1..Len(recipients) :
        i # j => recipients[i].publicKey # recipients[j].publicKey
OwnsEntry(sk, recipient) == b64e(PublicOf(sk)) = recipient.publicKey

\* C9: in a manifest built for recipients with pairwise distinct keypairs,
\* a recipient's private key unseals that recipient's own wrappedKey to the
\* file key given to build_manifest, and unsealing any other entry with it
\* raises CryptoError.
C9_Isolation ==
    (/\ unsealed # NoCall /\ built # NoCall /\ IsOk(built.ret)
     /\ DistinctKeypairs(built.recipients.recipients)
     /\ \E i \in 1..Len(built.ret.val.recipients) :
            OwnsEntry(unsealed.sk, built.ret.val.recipients[i]))
        => IF OwnsEntry(unsealed.sk, built.ret.val.recipients[unsealed.index])
           THEN unsealed.ret = Ok(built.fk)
           ELSE unsealed.ret = SealFailed

C9_WitnessOwn ==
    /\ unsealed # NoCall /\ built # NoCall /\ IsOk(built.ret)
    /\ Len(built.ret.val.recipients) = 2
    /\ DistinctKeypairs(built.recipients.recipients)
    /\ OwnsEntry(unsealed.sk, built.ret.val.recipients[unsealed.index])
    /\ unsealed.ret = Ok(built.fk)

C9_WitnessOther ==
    /\ unsealed # NoCall /\ built # NoCall /\ IsOk(built.ret)
    /\ Len(built.ret.val.recipients) = 2
    /\ DistinctKeypairs(built.recipients.recipients)
    /\ \E i \in 1..2 : OwnsEntry(unsealed.sk, built.ret.val.recipients[i])
    /\ ~OwnsEntry(unsealed.sk, built.ret.val.recipients[unsealed.index])
    /\ unsealed.ret = SealFailed

\* The private key that belongs to the public key of a manifest entry.
KeyFor(recipient) == CHOOSE sk \in MemberKeys : OwnsEntry(sk, recipient)

\* C10: a manifest that build_manifest returns has the project id given, and
\* one entry for each input recipient in input order: entry i has the email
\* and the publicKey of input recipient i, and its wrappedKey unseals, with
\* the private key of that public key, to the file key given.
C10_ManifestShape ==
    (built # NoCall /\ IsOk(built.ret)) =>
        LET out == built.ret.val.recipients
            inp == built.recipients.recipients
        IN  /\ built.ret.val.projectId = built.project_id
            /\ Len(out) = Len(inp)
            /\ \A i \in 1..Len(inp) :
                /\ out[i].email = inp[i].email
                /\ out[i].publicKey = inp[i].publicKey
                /\ unseal_entry(KeyFor(inp[i]), out[i]) = Ok(built.fk)

C10_Witness ==
    /\ built # NoCall /\ IsOk(built.ret)
    /\ Len(built.ret.val.recipients) = MaxRecipients
    /\ built.project_id # built.recipients.projectId
    /\ built.ret.val.recipients[1].email = built.recipients.recipients[1].email
    /\ built.ret.val.recipients[2].email = built.recipients.recipients[2].email
    /\ built.ret.val.recipients[1].email # built.ret.val.recipients[2].email

\* C11: build_manifest given an empty recipient list, or a list in which two
\* recipients share an email, all public keys being usable, raises the
\* validation error of Manifest and returns no manifest.
C11_ManifestRejected ==
    (built # NoCall) =>
        LET inp == built.recipients.recipients
        IN  /\ Len(inp) = 0 =>
                built.ret = Raise("ValidationError", "Manifest must contain at least one recipient")
            /\ (Len(inp) > 0 /\ Cardinality(Emails(inp)) # Len(inp)) =>
                built.ret = Raise("ValidationError", "Duplicate manifest recipient emails detected")

C11_Witness ==
    /\ built # NoCall
    /\ Len(built.recipients.recipients) = 2
    /\ Cardinality(Emails(built.recipients.recipients)) = 1
    /\ built.ret = Raise("ValidationError", "Duplicate manifest recipient emails detected")

C11_WitnessEmpty ==
    /\ built # NoCall
    /\ Len(built.recipients.recipients) = 0
    /\ built.ret = Raise("ValidationError", "Manifest must contain at least one recipient")

(***************************************************************************)
(* Files of the command line.  A JSON text is the sequence of its members, *)
(* <<name, value>> in the order written; the empty text is no JSON.  A     *)
(* text of lines (.gitignore) is its lines and whether the last one ends   *)
(* with a newline.                                                         *)
(***************************************************************************)
DEFAULT_ENV_NAME == ".env"
ENCRYPTED_ENV_NAME == ".env.enc"
MANIFEST_FILENAME == "ripenv.manifest.json"
DEFAULT_KEYFILE_NAME == "mykey.enc.json"
GITIGNORE_NAME == ".gitignore"

\* path.exists()
exists(path, files, directories) == IsFile(files, path) \/ path \in directories

\* path.mkdir(parents=True, exist_ok=True)
mkdir(path, files, directories) ==
    IF IsFile(files, path) \/ \E d \in Parents(path) : IsFile(files, d)
    THEN Raise("FileExistsError", "File exists")
    ELSE Ok(directories \cup Parents(path) \cup {path})

\* path.read_text() / path.read_bytes()
read_file(path, files, directories) ==
    IF path \in directories THEN Raise("IsADirectoryError", "Is a directory")
    ELSE IF ~IsFile(files, path) THEN Raise("FileNotFoundError", "No such file or directory")
    ELSE Ok(files[path][2])

\* path.unlink()
unlink(path, files, directories) ==
    IF ~IsFile(files, path) THEN Raise("FileNotFoundError", "No such file or directory")
    ELSE Ok([files EXCEPT ![path] = NoFile])

HasMember(obj, name) == \E i \in 1..Len(obj) : obj[i][1] = name
Member(obj, name) == obj[CHOOSE i \in 1..Len(obj) : obj[i][1] = name][2]

\* Manifest.model_dump_json
manifest_dump_json(manifest) ==
    << <<"version", manifest.version>>, <<"projectId", manifest.projectId>>,
       <<"algo", manifest.algo>>,
       <<"recipients",
         [i \in 1..Len(manifest.recipients) |->
            << <<"email", manifest.recipients[i].email>>,
               <<"publicKey", manifest.recipients[i].publicKey>>,
               <<"wrappedKey", manifest.recipients[i].wrappedKey>> >>]>> >>

\* KeyFile.model_validate_json of load_keyfile.
load_keyfile(path, files, directories) ==
    LET data == read_file(path, files, directories)
    IN  IF ~IsOk(data) THEN data
        ELSE IF data.val = <<>> THEN Raise("ValidationError", "Invalid JSON")
        ELSE IF \E name \in {"publicKey", "encPrivateKey", "salt", "kdf"} :
                    ~HasMember(data.val, name)
        THEN Raise("ValidationError", "Field required")
        ELSE KeyFile(Member(data.val, "publicKey"), Member(data.val, "encPrivateKey"),
                     Member(data.val, "salt"), Member(data.val, "kdf"))

RECURSIVE validate_recipients(_, _, _)
\* The entries of a recipients member, each validated as a ManifestRecipient.
validate_recipients(items, i, done) ==
    IF i > Len(items) THEN Ok(done)
    ELSE IF \E name \in {"email", "publicKey", "wrappedKey"} : ~HasMember(items[i], name)
    THEN Raise("ValidationError", "Field required")
    ELSE LET entry == ManifestRecipient(Member(items[i], "email"),
                                        Member(items[i], "publicKey"),
                                        Member(items[i], "wrappedKey"))
         IN  IF ~IsOk(entry) THEN entry
             ELSE validate_recipients(items, i + 1, Append(done, entry.val))

\* Manifest.model_validate_json taking whatever version and algo are stored.
Manifest_model_validate_json_AnyLiteral(text) ==
    IF text = <<>> THEN Raise("ValidationError", "Invalid JSON")
    ELSE IF ~HasMember(text, "projectId") \/ ~HasMember(text, "recipients")
    THEN Raise("ValidationError", "Field required")
    ELSE LET entries == validate_recipients(Member(text, "recipients"), 1, <<>>)
             made    == IF IsOk(entries) THEN Manifest(Member(text, "projectId"), entries.val)
                        ELSE entries
         IN  IF ~IsOk(made) THEN made
             ELSE Ok([made.val EXCEPT
                        !.version = IF HasMember(text, "version")
                                    THEN Member(text, "version") ELSE @,
                        !.algo = IF HasMember(text, "algo") THEN Member(text, "algo") ELSE @])

\* Manifest.model_validate_json: version and algo may be absent and then take
\* their defaults; every field is checked, then the recipients validator.
Manifest_model_validate_json(text) ==
    IF text = <<>> THEN Raise("ValidationError", "Invalid JSON")
    ELSE IF ~HasMember(text, "projectId") \/ ~HasMember(text, "recipients")
    THEN Raise("ValidationError", "Field required")
    ELSE LET version == IF HasMember(text, "version") THEN Member(text, "version")
                        ELSE MANIFEST_VERSION
             algo    == IF HasMember(text, "algo") THEN Member(text, "algo")
                        ELSE MANIFEST_ALGO
             entries == validate_recipients(Member(text, "recipients"), 1, <<>>)
         IN  IF version # MANIFEST_VERSION
             THEN Raise("ValidationError", "Input should be 1")
             ELSE IF algo # MANIFEST_ALGO
             THEN Raise("ValidationError", "Input should be 'xsalsa20poly1305'")
             ELSE IF ~IsOk(entries) THEN entries
             ELSE Manifest(Member(text, "projectId"), entries.val)

load_manifest(path, files, directories) ==
    LET text == read_file(path, files, directories)
    IN  IF ~IsOk(text) THEN text ELSE Manifest_model_validate_json(text.val)

\* save_manifest: the file system it leaves, or the exception raised.
save_manifest(manifest, out_dir, files, directories) ==
    LET made          == mkdir(out_dir, files, directories)
        manifest_path == Append(out_dir, MANIFEST_FILENAME)
        written       == IF IsOk(made)
                         THEN write_text(manifest_path, manifest_dump_json(manifest),
                                         files, made.val)
                         ELSE made
    IN  [ret  |-> IF IsOk(written) THEN Ok(manifest_path) ELSE written,
         fs   |-> IF IsOk(written) THEN written.val ELSE files,
         dirs |-> IF IsOk(made) THEN made.val ELSE directories]

\* str.lower() and str.strip() on the strings that occur.
lower(str) ==
    CASE str = "BOB@example.com"   -> "bob@example.com"
      [] str = "Bob@example.com"   -> "bob@example.com"
      [] str = "bob@Example.COM"   -> "bob@example.com"
      [] str = "Carol@example.com" -> "carol@example.com"
      [] str = "# ripenv - Environment files with secrets"
                                   -> "# ripenv - environment files with secrets"
      [] OTHER                     -> str

strip(str) ==
    CASE str = " .env"  -> ".env"
      [] str = ".env  " -> ".env"
      [] str = "  "     -> ""
      [] OTHER          -> str

\* The entries asked for: the name of the environment file (.env unless the
\* --env option names another file) and the name of the keyfile.
IgnoreEntries == {DEFAULT_ENV_NAME, DEFAULT_KEYFILE_NAME, ".env.local"}

IsComment(str) == str \in {"# ripenv - Environment files with secrets", "# secrets", "#.env"}
MentionsRipenv(str) ==
    str \in {"# ripenv - environment files with secrets", "ripenv.manifest.json"}
             \cup {"ripenv.manifest.json" \o entry : entry \in IgnoreEntries}

GITIGNORE_HEADER == "# ripenv - Environment files with secrets"
NoText == [lines |-> <<>>, eol |-> FALSE]

\* ensure_gitignore_entry: the file system it leaves.
ensure_gitignore_entry(directory, entry, files, directories) ==
    LET gitignore_path   == Append(directory, GITIGNORE_NAME)
        present          == exists(gitignore_path, files, directories)
        existing_content == IF present THEN files[gitignore_path][2] ELSE NoText
        lines            == existing_content.lines
        entry_exists     ==
            \E i \in 1..Len(lines) :
                /\ strip(lines[i]) # "" /\ ~IsComment(strip(lines[i]))
                /\ strip(lines[i]) = strip(entry)
        has_ripenv_section == \E i \in 1..Len(lines) : MentionsRipenv(lower(lines[i]))
        with_header      == IF has_ripenv_section THEN lines
                            ELSE lines \o <<"", GITIGNORE_HEADER>>
        new_lines        ==
            IF existing_content.eol \/ lines = <<>> \/ ~has_ripenv_section
            THEN Append(with_header, entry)
            ELSE Take(lines, Len(lines) - 1) \o <<lines[Len(lines)] \o entry>>
    IN  IF entry_exists THEN files
        ELSE [files EXCEPT ![gitignore_path] = File([lines |-> new_lines, eol |-> TRUE])]

(***************************************************************************)
(* Commands.  A run ends by returning (exit status 0), by click.Abort or   *)
(* by an exception nobody catches (exit status 1).  panels are the panels  *)
(* shown, <<title, message>>, in order; calls are the steps taken that the *)
(* claims speak about.                                                     *)
(***************************************************************************)
Returned(panels, calls, files, directories) ==
    [exit |-> 0, exc |-> "none", panels |-> panels, calls |-> calls,
     fs |-> files, dirs |-> directories]
Propagated(r, panels, calls, files, directories) ==
    [exit |-> 1, exc |-> r.exc, panels |-> panels, calls |-> calls,
     fs |-> files, dirs |-> directories]

ErrorPanel(message) == <<"Error", message>>

\* abort: an error panel, then click.Abort.
abort(message) == Raise("Abort", message)

check_overwrite(path, force, files, directories) ==
    IF exists(path, files, directories) /\ ~force
    THEN abort("Refusing to overwrite existing file. Use --force to override.")
    ELSE Ok(TRUE)

(***************************************************************************)
(* The directory service.  A response is reachable or not, and carries the *)
(* rows of the project's members that have a public key.                   *)
(***************************************************************************)
RECURSIVE member_recipients(_, _, _)
member_recipients(data, i, recipients) ==
    IF i > Len(data) THEN Ok(recipients)
    ELSE LET r == Recipient(data[i].email, data[i].public_key)
         IN  IF ~IsOk(r) THEN r
             ELSE member_recipients(data, i + 1, Append(recipients, r.val))

get_project_recipients(response) ==
    IF ~response.reachable
    THEN Raise("ValueError", "Failed to fetch project recipients from Supabase")
    ELSE IF Len(response.data) = 0
    THEN Raise("ValueError", "Project has no members with public keys")
    ELSE LET recipients == member_recipients(response.data, 1, <<>>)
         IN  IF Caught(recipients, "ValueError")
             THEN Raise("ValueError", recipients.msg)
             ELSE recipients

fetch_recipients_from_supabase(response) ==
    LET recipients == get_project_recipients(response)
    IN  IF Caught(recipients, "ValueError") THEN abort(recipients.msg) ELSE recipients

build_recipients_export(project_id, recipients) == RecipientsExport(project_id, recipients)

\* An access check that lets everyone pass.
verify_user_project_access_Always(access) == Ok(TRUE)

\* client.verify_project_access behind verify_user_project_access;
\* access is what the directory service answers for the project and email.
verify_user_project_access(access) ==
    CASE access = "member"      -> Ok(TRUE)
      [] access = "no member"   -> abort("User does not have access to project")
      [] OTHER                  -> abort("Failed to verify project access with Supabase")

(***************************************************************************)
(* encrypt.  response is the answer of the directory service; fk, nonce    *)
(* and esks are what os.urandom, secretbox_encrypt and the sealed boxes    *)
(* drew in this run.                                                       *)
(***************************************************************************)
\* The steps of encrypt, the last one first; each takes as its last parameters
\* what the step before it obtained.
encrypt_delete(env_path, delete, files, directories) ==
    LET removed == IF delete THEN unlink(env_path, files, directories) ELSE Ok(files)
        done    == <<"file_encrypt", "build_manifest", "write_bytes", "save_manifest">>
    IN  IF ~IsOk(removed)
        THEN Returned(<< <<"Cleanup Warning", "Failed to delete original file">>,
                         <<"Encryption Complete!",
                           "Your environment file has been encrypted successfully.">> >>,
                      done, files, directories)
        ELSE Returned(<< <<"Encryption Complete!",
                           "Your environment file has been encrypted successfully.">> >>,
                      IF delete THEN Append(done, "unlink") ELSE done,
                      removed.val, directories)

encrypt_ignore(env_path, delete, saved) ==
    IF ~IsOk(saved.ret)
    THEN Propagated(saved.ret, <<>>, <<"file_encrypt", "build_manifest", "write_bytes">>,
                    saved.fs, saved.dirs)
    ELSE encrypt_delete(env_path, delete,
             ensure_gitignore_entry(Take(env_path, Len(env_path) - 1), DEFAULT_KEYFILE_NAME,
                 ensure_gitignore_entry(Take(env_path, Len(env_path) - 1),
                                        env_path[Len(env_path)], saved.fs, saved.dirs),
                 saved.dirs),
             saved.dirs)

encrypt_save(env_path, out_dir, delete, manifest, files, directories, written) ==
    IF ~IsOk(written)
    THEN Propagated(written, <<>>, <<"file_encrypt", "build_manifest">>, files, directories)
    ELSE encrypt_ignore(env_path, delete,
                        save_manifest(manifest, out_dir, written.val, directories))

encrypt_store(env_path, out_dir, force, delete, files, directories, payload, manifest) ==
    IF ~IsOk(payload) THEN Propagated(payload, <<>>, <<"file_encrypt">>, files, directories)
    ELSE IF ~IsOk(manifest)
    THEN Propagated(manifest, <<>>, <<"file_encrypt", "build_manifest">>, files, directories)
    ELSE IF ~IsOk(check_overwrite(Append(out_dir, ENCRYPTED_ENV_NAME), force, files, directories))
    THEN Propagated(check_overwrite(Append(out_dir, ENCRYPTED_ENV_NAME), force,
                                    files, directories),
                    <<ErrorPanel(check_overwrite(Append(out_dir, ENCRYPTED_ENV_NAME), force,
                                                 files, directories).msg)>>,
                    <<"file_encrypt", "build_manifest">>, files, directories)
    ELSE encrypt_save(env_path, out_dir, delete, manifest.val, files, directories,
                      write_text(Append(out_dir, ENCRYPTED_ENV_NAME), payload.val,
                                 files, directories))

encrypt_seal(env_path, out_dir, force, delete, fk, nonce, esks, files, directories, env_bytes, recipients) ==
    IF ~IsOk(recipients) THEN Propagated(recipients, <<>>, <<>>, files, directories)
    ELSE encrypt_store(env_path, out_dir, force, delete, files, directories,
                       secretbox_encrypt(fk, env_bytes, nonce),
                       build_manifest(recipients.val.projectId, fk, recipients.val, esks))

\* encrypt removing the original as soon as it has been read.
encrypt_fetch_DeleteFirst(env_path, project_id, out_dir, force, delete, fk, nonce, esks, files, directories, env_bytes, recipients_list) ==
    IF ~IsOk(env_bytes) THEN Propagated(env_bytes, <<>>, <<>>, files, directories)
    ELSE IF env_bytes.val = <<>>
    THEN Returned(<< <<"Empty File", "The environment file appears to be empty.">> >>,
                  <<>>, files, directories)
    ELSE IF Caught(recipients_list, "Exception")
    THEN Returned(<<ErrorPanel(recipients_list.msg),
                    <<"Recipients Fetch Failed", "Could not fetch recipients">> >>,
                  <<>>,
                  IF delete THEN [files EXCEPT ![env_path] = NoFile] ELSE files,
                  directories)
    ELSE encrypt_seal(env_path, out_dir, force, FALSE, fk, nonce, esks,
                      IF delete THEN [files EXCEPT ![env_path] = NoFile] ELSE files,
                      directories, env_bytes.val,
                      build_recipients_export(project_id, recipients_list.val))

encrypt_fetch(env_path, project_id, out_dir, force, delete, fk, nonce, esks, files, directories, env_bytes, recipients_list) ==
    IF ~IsOk(env_bytes) THEN Propagated(env_bytes, <<>>, <<>>, files, directories)
    ELSE IF env_bytes.val = <<>>
    THEN Returned(<< <<"Empty File", "The environment file appears to be empty.">> >>,
                  <<>>, files, directories)
    ELSE IF Caught(recipients_list, "Exception")
    THEN Returned(<<ErrorPanel(recipients_list.msg),
                    <<"Recipients Fetch Failed", "Could not fetch recipients">> >>,
                  <<>>, files, directories)
    ELSE encrypt_seal(env_path, out_dir, force, delete, fk, nonce, esks, files, directories,
                      env_bytes.val,
                      build_recipients_export(project_id, recipients_list.val))

encrypt_read(env_path, project_id, out_dir, force, delete, response, fk, nonce, esks, files, directories, made) ==
    IF ~IsOk(made) THEN Propagated(made, <<>>, <<>>, files, directories)
    ELSE encrypt_fetch(env_path, project_id, out_dir, force, delete, fk, nonce, esks,
                       files, made.val,
                       read_file(env_path, files, made.val),
                       fetch_recipients_from_supabase(response))

encrypt(env_path, project_id, out_dir, force, delete, response, fk, nonce, esks, files, directories) ==
    encrypt_read(env_path, project_id, out_dir, force, delete, response, fk, nonce, esks,
                 files, directories, mkdir(out_dir, files, directories))

(***************************************************************************)
(* decrypt.  password and email are what the user types when prompted (the *)
(* email only when no entry has the keyfile's public key); access is the   *)
(* answer of the directory service.                                        *)
(***************************************************************************)
\* The first entry with the public key of the keyfile, or 0.
match_public_key(manifest, user_public_key) ==
    LET hits == {i \in 1..Len(manifest.recipients) :
                    manifest.recipients[i].publicKey = user_public_key}
    IN  IF hits = {} THEN 0 ELSE CHOOSE i \in hits : \A j \in hits : i <= j

\* The first entry whose email is the typed one, letter case aside, or 0.
match_email(manifest, email) ==
    LET hits == {i \in 1..Len(manifest.recipients) :
                    lower(manifest.recipients[i].email) = lower(email)}
    IN  IF hits = {} THEN 0 ELSE CHOOSE i \in hits : \A j \in hits : i <= j

\* Resolutions that differ from the one of decrypt: the first entry whatever
\* the keyfile, and the typed email before the public key.
find_recipient_First(manifest, user_public_key, email) == 1

find_recipient_EmailFirst(manifest, user_public_key, email) ==
    IF match_email(manifest, email) # 0
    THEN match_email(manifest, email)
    ELSE match_public_key(manifest, user_public_key)

\* The entry decrypt goes on with, or 0 when it reports Access Denied.
find_recipient(manifest, user_public_key, email) ==
    IF match_public_key(manifest, user_public_key) # 0
    THEN match_public_key(manifest, user_public_key)
    ELSE match_email(manifest, email)

\* A run that went on with entry index of the manifest.
Chose(index, run) == [selected |-> index] @@ run

\* The steps of decrypt, the last one first; each takes as its last parameters
\* what the step before it obtained.
decrypt_write(folder_path, force, files, directories, plaintext) ==
    LET out_path == Append(folder_path, DEFAULT_ENV_NAME)
        unsealed_calls == <<"load_keyfile", "unlock_private_key", "load_manifest",
                            "verify_user_project_access", "sealedbox_unwrap", "file_decrypt">>
        allowed  == check_overwrite(out_path, force, files, directories) IN
    IF Caught(plaintext, "Exception")
    THEN Returned(<< <<"Decryption Failed",
                       "Failed to decrypt .env.enc. The file may be corrupted or the key is incorrect.">> >>,
                  unsealed_calls, files, directories)
    ELSE IF ~IsOk(allowed)
    THEN Propagated(allowed, <<ErrorPanel(allowed.msg)>>, unsealed_calls, files, directories)
    ELSE IF ~IsOk(write_text(out_path, plaintext.val, files, directories))
    THEN Propagated(write_text(out_path, plaintext.val, files, directories), <<>>,
                    unsealed_calls, files, directories)
    ELSE Returned(<< <<"Decryption Complete!", "Environment secrets decrypted">> >>,
                  Append(unsealed_calls, "write_bytes"),
                  ensure_gitignore_entry(folder_path, DEFAULT_KEYFILE_NAME,
                      ensure_gitignore_entry(folder_path, DEFAULT_ENV_NAME,
                          write_text(out_path, plaintext.val, files, directories).val,
                          directories),
                      directories),
                  directories)

decrypt_open(folder_path, force, files, directories, fk, enc_payload) ==
    IF Caught(fk, "Exception")
    THEN Returned(<< <<"Key Unwrap Failed",
                       "Failed to unwrap file key. Ensure you used the correct keyfile and password.">> >>,
                  <<"load_keyfile", "unlock_private_key", "load_manifest",
                    "verify_user_project_access", "sealedbox_unwrap">>,
                  files, directories)
    ELSE IF ~IsOk(enc_payload)
    THEN Propagated(enc_payload, <<>>,
                    <<"load_keyfile", "unlock_private_key", "load_manifest",
                      "verify_user_project_access", "sealedbox_unwrap">>,
                    files, directories)
    ELSE decrypt_write(folder_path, force, files, directories,
                       secretbox_decrypt(fk.val, enc_payload.val))

decrypt_unseal(folder_path, force, files, directories, private_key, wrapped_fk) ==
    IF ~IsOk(wrapped_fk)
    THEN Propagated(wrapped_fk, <<>>,
                    <<"load_keyfile", "unlock_private_key", "load_manifest",
                      "verify_user_project_access">>,
                    files, directories)
    ELSE decrypt_open(folder_path, force, files, directories,
                      sealedbox_unwrap(private_key, wrapped_fk.val),
                      read_file(Append(folder_path, ENCRYPTED_ENV_NAME), files, directories))

\* decrypt from the access check on, for the entry found.
decrypt_as(folder_path, force, access, files, directories, private_key, recipient) ==
    IF Caught(verify_user_project_access(access), "Exception")
    THEN Returned(<<ErrorPanel(verify_user_project_access(access).msg),
                    <<"Access Verification Failed", "Could not verify access">> >>,
                  <<"load_keyfile", "unlock_private_key", "load_manifest",
                    "verify_user_project_access">>,
                  files, directories)
    ELSE decrypt_unseal(folder_path, force, files, directories, private_key,
                        b64d(recipient.wrappedKey))

decrypt_found(folder_path, force, access, files, directories, private_key, manifest, index) ==
    IF index = 0
    THEN Returned(<< <<"Access Denied", "No manifest entry found">> >>,
                  <<"load_keyfile", "unlock_private_key", "load_manifest">>,
                  files, directories)
    ELSE Chose(index, decrypt_as(folder_path, force, access, files, directories,
                                 private_key, manifest.recipients[index]))

\* decrypt going on with a manifest of whatever project.
decrypt_find_AnyProject(folder_path, project_id, force, email, access, files, directories, keyfile, private_key, manifest) ==
    IF Caught(manifest, "ValidationError")
    THEN Returned(<< <<"Invalid Manifest", "Could not load manifest">> >>,
                  <<"load_keyfile", "unlock_private_key", "load_manifest">>,
                  files, directories)
    ELSE IF ~IsOk(manifest)
    THEN Propagated(manifest, <<>>, <<"load_keyfile", "unlock_private_key", "load_manifest">>,
                    files, directories)
    ELSE decrypt_found(folder_path, force, access, files, directories, private_key,
                       manifest.val,
                       find_recipient(manifest.val, keyfile.publicKey, email))

decrypt_find(folder_path, project_id, force, email, access, files, directories, keyfile, private_key, manifest) ==
    IF Caught(manifest, "ValidationError")
    THEN Returned(<< <<"Invalid Manifest", "Could not load manifest">> >>,
                  <<"load_keyfile", "unlock_private_key", "load_manifest">>,
                  files, directories)
    ELSE IF ~IsOk(manifest)
    THEN Propagated(manifest, <<>>, <<"load_keyfile", "unlock_private_key", "load_manifest">>,
                    files, directories)
    ELSE IF manifest.val.projectId # project_id
    THEN Returned(<< <<"Project Mismatch", "Manifest is for another project">> >>,
                  <<"load_keyfile", "unlock_private_key", "load_manifest">>,
                  files, directories)
    ELSE decrypt_found(folder_path, force, access, files, directories, private_key,
                       manifest.val,
                       find_recipient(manifest.val, keyfile.publicKey, email))

decrypt_load(folder_path, project_id, force, email, access, files, directories, keyfile, private_key) ==
    IF Caught(private_key, "ValueError")
    THEN Returned(<< <<"Authentication Failed", "Could not unlock private key">> >>,
                  <<"load_keyfile", "unlock_private_key">>, files, directories)
    ELSE IF ~IsOk(private_key)
    THEN Propagated(private_key, <<>>, <<"load_keyfile", "unlock_private_key">>,
                    files, directories)
    ELSE decrypt_find(folder_path, project_id, force, email, access, files, directories,
                      keyfile, private_key.val,
                      load_manifest(Append(folder_path, MANIFEST_FILENAME), files, directories))

decrypt_unlock(folder_path, project_id, force, password, email, access, files, directories, keyfile) ==
    IF Caught(keyfile, "ValidationError")
    THEN Returned(<< <<"Invalid Keyfile", "Could not load keyfile">> >>, <<"load_keyfile">>,
                  files, directories)
    ELSE IF ~IsOk(keyfile)
    THEN Propagated(keyfile, <<>>, <<"load_keyfile">>, files, directories)
    ELSE decrypt_load(folder_path, project_id, force, email, access, files, directories,
                      keyfile.val, unlock_private_key(password, keyfile.val).ret)

decrypt(folder_path, project_id, keyfile_path, force, password, email, access, files, directories) ==
    IF ~exists(Append(folder_path, ENCRYPTED_ENV_NAME), files, directories)
    THEN Returned(<< <<"File Not Found", "Encrypted file not found">> >>, <<>>,
                  files, directories)
    ELSE IF ~exists(Append(folder_path, MANIFEST_FILENAME), files, directories)
    THEN Returned(<< <<"File Not Found", "Manifest file not found">> >>, <<>>,
                  files, directories)
    ELSE decrypt_unlock(folder_path, project_id, force, password, email, access,
                        files, directories, load_keyfile(keyfile_path, files, directories))

(***************************************************************************)
(* The world of the commands: a project directory app with the .env, an    *)
(* output folder out that is absent or holds the files of an earlier run,  *)
(* and the keyfiles of three people under keys, one more keyfile being     *)
(* unusable.  alice and bob are members of the project, carol is not.      *)
(***************************************************************************)
AppDir == <<"app">>
OutDir == <<"out">>
KeysDir == <<"keys">>
EnvPath == Append(AppDir, DEFAULT_ENV_NAME)

Holders ==
    {[name |-> "alice.enc.json", email |-> "alice@example.com",
      sk |-> SecretKeyOf(1), password |-> PasswordOf(1)],
     [name |-> "bob.enc.json", email |-> "bob@Example.COM",
      sk |-> SecretKeyOf(2), password |-> PasswordOf(2)],
     [name |-> "carol.enc.json", email |-> "carol@example.com",
      sk |-> SecretKeyOf(3), password |-> PasswordOf(1)]}
Holder(name) == CHOOSE h \in Holders : h.name = name
KeyfileOf(h) == new_keyfile(h.password, h.sk, Gen(41, SALT_LENGTH), NonceOf(1)).val
BrokenKeyfilePath == Append(KeysDir, "broken.enc.json")
KeyfilePaths == {Append(KeysDir, h.name) : h \in Holders} \cup {BrokenKeyfilePath}

CliPaths ==
    KeyfilePaths
    \cup {EnvPath, Append(AppDir, GITIGNORE_NAME)}
    \cup {Append(OutDir, n) :
            n \in {ENCRYPTED_ENV_NAME, MANIFEST_FILENAME, DEFAULT_ENV_NAME, GITIGNORE_NAME}}

EnvContents == {<<>>, EnvBytes}
OldEnv == <<79, 76, 68, 61, 49, 10>>

Row(name) == [email |-> Holder(name).email, public_key |-> b64e(PublicOf(Holder(name).sk))]
Reachable(data) == [reachable |-> TRUE, data |-> data]
Unreachable == [reachable |-> FALSE, data |-> <<>>]
\* A row whose public key decodes to fewer than 32 bytes.
BadKeyRow == [email |-> "dave@example.com",
              public_key |-> Take(b64e(PublicOf(SecretKeyOf(1))), 40)]
UsableResponses ==
    {Reachable(<<Row("alice.enc.json"), Row("bob.enc.json")>>),
     Reachable(<<Row("bob.enc.json")>>)}
MalformedResponses ==
    {Reachable(<<>>),
     Reachable(<<Row("alice.enc.json"), Row("bob.enc.json"), Row("alice.enc.json")>>),
     Reachable(<<Row("alice.enc.json"), BadKeyRow>>)}
Responses == UsableResponses \cup MalformedResponses \cup {Unreachable}

CliFileKey == Gen(51, KEY_LENGTH)
OldFileKey == Gen(52, KEY_LENGTH)
CliDraws == [i \in 1..3 |-> Gen(30 + i, KEY_LENGTH)]

FreshWorld(env) ==
    [fs   |-> [p \in CliPaths |->
                IF p = EnvPath THEN File(env)
                ELSE IF p = BrokenKeyfilePath
                THEN File(model_dump_json([KeyfileOf(Holder("alice.enc.json"))
                                                EXCEPT !.kdf = "scrypt"]))
                ELSE IF p \in KeyfilePaths THEN File(model_dump_json(KeyfileOf(Holder(p[2]))))
                ELSE NoFile],
     dirs |-> {<<>>, AppDir, KeysDir}]

\* The world after an earlier run of encrypt on OldEnv and a decrypt into out.
UsedWorld(env) ==
    LET fresh == FreshWorld(OldEnv)
        run   == encrypt(EnvPath, "project-123", OutDir, FALSE, FALSE,
                         Reachable(<<Row("alice.enc.json"), Row("bob.enc.json")>>),
                         OldFileKey, NonceOf(2), CliDraws, fresh.fs, fresh.dirs)
    IN  [fs   |-> [run.fs EXCEPT ![EnvPath] = File(env), ![Append(OutDir, DEFAULT_ENV_NAME)] = File(OldEnv)],
         dirs |-> run.dirs]

Worlds == {FreshWorld(env) : env \in EnvContents} \cup {UsedWorld(EnvBytes)}

InitCli ==
    /\ box = NoCall /\ wire = <<>> /\ unbox = NoCall
    /\ created = NoCall /\ kfile = NoCall /\ unlocked = NoCall
    /\ built = NoCall /\ unsealed = NoCall
    /\ encrypted = NoCall /\ decrypted = NoCall
    /\ boxes = <<>> /\ drawn = {}
    /\ validated = NoCall
    /\ \E world \in Worlds : fs = world.fs /\ dirs = world.dirs

CliFrame ==
    UNCHANGED <<box, wire, unbox, created, kfile, unlocked, built, unsealed, boxes, drawn,
                validated>>

Encrypt ==
    /\ encrypted = NoCall /\ decrypted = NoCall
    /\ \E project_id \in {"project-123"}, force \in BOOLEAN, delete \in BOOLEAN,
          response \in Responses :
        \E run \in {encrypt(EnvPath, project_id, OutDir, force, delete, response,
                             CliFileKey, NonceOf(1), CliDraws, fs, dirs)} :
            /\ encrypted' = [op |-> "encrypt", project_id |-> project_id, force |-> force,
                             delete |-> delete, response |-> response, fk |-> CliFileKey,
                             env |-> fs[EnvPath][2], exit |-> run.exit, exc |-> run.exc,
                             panels |-> run.panels, calls |-> run.calls]
            /\ fs' = run.fs
            /\ dirs' = run.dirs
    /\ UNCHANGED decrypted
    /\ CliFrame

Completed(run) == run # NoCall /\ run.exit = 0 /\ run.calls # <<>>

\* The files of the completed run are as it wrote them.
Intact ==
    /\ Completed(encrypted) /\ decrypted = NoCall
    /\ LET text == fs[Append(OutDir, MANIFEST_FILENAME)][2]
       IN  /\ text # <<>>
           /\ unseal_entry(KeyFor([publicKey |-> text[4][2][1][2][2]]),
                           [wrappedKey |-> text[4][2][1][3][2]]) = Ok(encrypted.fk)
    /\ secretbox_decrypt(encrypted.fk, fs[Append(OutDir, ENCRYPTED_ENV_NAME)][2])
         = Ok(encrypted.env)

\* The stored payload is changed in one position or cut below the nonce.
CorruptPayload ==
    /\ Intact
    /\ LET enc_path == Append(OutDir, ENCRYPTED_ENV_NAME)
           good     == fs[enc_path][2]
       IN  \E bad \in {[good EXCEPT ![11] = 255 - good[11]],
                       Take(good, SECRETBOX_NONCE_SIZE - 1)} :
                fs' = [fs EXCEPT ![enc_path] = File(bad)]
    /\ UNCHANGED <<dirs, encrypted, decrypted>>
    /\ CliFrame

\* The stored manifest is changed: no JSON; the first wrappedKey cut by three
\* or by four characters; the first wrappedKey replaced by the last one.
CorruptManifest ==
    /\ Intact
    /\ LET manifest_path == Append(OutDir, MANIFEST_FILENAME)
           text          == fs[manifest_path][2]
           entries       == text[4][2]
           first_key     == entries[1][3][2]
           last_key      == entries[Len(entries)][3][2]
           Rekeyed(k)    == [text EXCEPT ![4] = <<"recipients",
                               [entries EXCEPT ![1] = [@ EXCEPT ![3] = <<"wrappedKey", k>>]]>>]
       IN  \E bad \in {<<>>,
                       Rekeyed(Take(first_key, Len(first_key) - 3)),
                       Rekeyed(Take(first_key, Len(first_key) - 4)),
                       Rekeyed(last_key)} \ {text} :
                fs' = [fs EXCEPT ![manifest_path] = File(bad)]
    /\ UNCHANGED <<dirs, encrypted, decrypted>>
    /\ CliFrame

TypedEmails == {"BOB@example.com", "dave@example.com"}
AccessAnswers == {"member", "no member", "unreachable"}

Decrypt ==
    /\ encrypted # NoCall /\ decrypted = NoCall
    /\ \E project_id \in ProjectIds, keyfile_path \in KeyfilePaths, force \in BOOLEAN,
          password \in {PasswordOf(1), PasswordOf(2)}, email \in TypedEmails,
          access \in AccessAnswers :
        \E run \in {decrypt(OutDir, project_id, keyfile_path, force, password, email, access,
                             fs, dirs)} :
            /\ decrypted' = [op |-> "decrypt", project_id |-> project_id,
                             keyfile_path |-> keyfile_path, force |-> force,
                             password |-> password, email |-> email, access |-> access,
                             selected |-> IF "selected" \in DOMAIN run
                                          THEN run.selected ELSE 0,
                             exit |-> run.exit, exc |-> run.exc,
                             panels |-> run.panels, calls |-> run.calls]
            /\ fs' = run.fs
            /\ dirs' = run.dirs
    /\ UNCHANGED encrypted
    /\ CliFrame

NextCli == Encrypt \/ CorruptPayload \/ CorruptManifest \/ Decrypt

SpecCli == InitCli /\ [][NextCli]_vars

(***************************************************************************)
(* The commands together.                                                  *)
(***************************************************************************)
OutEnvPath == Append(OutDir, DEFAULT_ENV_NAME)

\* The keyfiles of the people the run of encrypt sealed the file key for.
RecipientPaths(run) ==
    {Append(KeysDir, h.name) :
        h \in {h \in Holders : \E i \in 1..Len(run.response.data) :
                                  run.response.data[i].email = h.email}}

\* decrypt is run by someone encrypt sealed the key for, with the password of
\* their keyfile, for the project of the manifest, the directory service
\* confirming the membership, and .env free to be written.
ByRecipient(run, files, directories) ==
    /\ run.keyfile_path \in RecipientPaths(encrypted)
    /\ run.password = Holder(run.keyfile_path[2]).password
    /\ run.project_id = encrypted.project_id
    /\ run.access = "member"
    /\ run.force \/ ~exists(OutEnvPath, files, directories)

EncPath == Append(OutDir, ENCRYPTED_ENV_NAME)

\* decrypt got as far as the payload, and the payload is not one that the
\* file key of the run of encrypt opens.
PayloadRejected ==
    /\ Completed(encrypted) /\ decrypted # NoCall
    /\ ~IsOk(secretbox_decrypt(encrypted.fk, fs[EncPath][2]))
    /\ decrypted.calls # <<>>
    /\ decrypted.calls[Len(decrypted.calls)] = "file_decrypt"

\* C13: when the encrypted payload has been corrupted, decrypt reports that
\* it failed to decrypt and ends with a status other than 0.
C13_FailureStatus ==
    PayloadRejected =>
        /\ \E i \in 1..Len(decrypted.panels) : decrypted.panels[i][1] = "Decryption Failed"
        /\ decrypted.exit # 0

\* What the command does on a corrupted payload: the report, and status 0.
C13_ReportedOnly ==
    PayloadRejected =>
        /\ decrypted.panels =
             << <<"Decryption Failed",
                  "Failed to decrypt .env.enc. The file may be corrupted or the key is incorrect.">> >>
        /\ decrypted.exit = 0
        /\ fs[OutEnvPath] \in {NoFile, File(OldEnv)}

C13_Reached == PayloadRejected /\ decrypted.exit = 0

ManifestPath == Append(OutDir, MANIFEST_FILENAME)

\* The plaintext that the steps of decrypt before the write arrive at on the
\* files of a state, each step taken by itself: keyfile load, unlock, manifest
\* load, recipient match, access verification, unseal, authentication.
StepsOf(run, files, directories) ==
    LET keyfile  == load_keyfile(run.keyfile_path, files, directories)
        manifest == load_manifest(ManifestPath, files, directories) IN
    IF ~IsOk(keyfile) THEN Raise("step", "keyfile load")
    ELSE IF ~IsOk(unlock_private_key(run.password, keyfile.val).ret)
    THEN Raise("step", "private-key unlock")
    ELSE IF ~IsOk(manifest) THEN Raise("step", "manifest load")
    ELSE IF find_recipient(manifest.val, keyfile.val.publicKey, run.email) = 0
    THEN Raise("step", "recipient match")
    ELSE IF run.access # "member" THEN Raise("step", "access verification")
    ELSE
    LET private_key == unlock_private_key(run.password, keyfile.val).ret.val
        index       == find_recipient(manifest.val, keyfile.val.publicKey, run.email)
        fk          == unseal_entry(private_key, manifest.val.recipients[index]) IN
    IF ~IsOk(fk) THEN Raise("step", "file-key unseal")
    ELSE IF ~IsFile(files, EncPath) \/ ~IsOk(secretbox_decrypt(fk.val, files[EncPath][2]))
    THEN Raise("step", "payload authentication")
    ELSE secretbox_decrypt(fk.val, files[EncPath][2])

\* C14: decrypt writes .env only when all of keyfile load, unlock, manifest
\* load, recipient match, access verification, unseal and authentication
\* succeeded, and then it writes the whole plaintext; when any of them
\* fails, no file is changed.
C14_WriteOnlyOnSuccess ==
    [][(decrypted' # decrypted) =>
            LET steps == StepsOf(decrypted', fs, dirs)
            IN  /\ ~IsOk(steps) => fs' = fs
                /\ fs'[OutEnvPath] # fs[OutEnvPath] =>
                        IsOk(steps) /\ fs'[OutEnvPath] = File(steps.val)]_vars

\* bob's key is unsealed but the directory service denies the membership:
\* the .env of an earlier run is still there.
C14_Witness ==
    /\ Completed(encrypted) /\ decrypted # NoCall
    /\ decrypted.keyfile_path = Append(KeysDir, "bob.enc.json")
    /\ decrypted.selected # 0
    /\ decrypted.access = "no member"
    /\ decrypted.force
    /\ fs[OutEnvPath] = File(OldEnv)
    /\ OldEnv # encrypted.env

\* The run of encrypt ended with its panel of success.
Announced(run) ==
    \E i \in 1..Len(run.panels) : run.panels[i][1] = "Encryption Complete!"

\* C15: when the recipients that encrypt is given are malformed (no
\* recipient, two entries with one email, a public key that no box can be
\* sealed for), the run is rejected and has written no file: .env.enc and
\* ripenv.manifest.json are as they were, whether absent or left by an
\* earlier run.
C15_RejectedBeforeWrite ==
    [][(encrypted' # encrypted /\ encrypted'.response \in MalformedResponses) =>
            /\ ~Announced(encrypted')
            /\ \A i \in 1..Len(encrypted'.calls) :
                    encrypted'.calls[i] \notin {"write_bytes", "save_manifest"}
            /\ fs'[EncPath] = fs[EncPath]
            /\ fs'[ManifestPath] = fs[ManifestPath]
            /\ fs' = fs]_vars

\* A list with an unusable public key, --force given: the sealing loop has
\* been entered and nothing is in the output folder.
C15_Witness ==
    /\ encrypted # NoCall
    /\ encrypted.response = Reachable(<<Row("alice.enc.json"), BadKeyRow>>)
    /\ encrypted.env = EnvBytes
    /\ encrypted.force
    /\ encrypted.calls = <<"file_encrypt", "build_manifest">>
    /\ encrypted.exit = 1
    /\ OutDir \in dirs
    /\ fs[EncPath] = NoFile /\ fs[ManifestPath] = NoFile

\* The same for two entries with one email, over the files of an earlier run.
C15_WitnessKept ==
    /\ encrypted # NoCall
    /\ Len(encrypted.response.data) = 3
    /\ encrypted.force
    /\ encrypted.exit = 1
    /\ IsOk(secretbox_decrypt(OldFileKey, fs[EncPath][2]))

\* decrypt came to look for its entry: keyfile and manifest were loaded, the
\* private key unlocked, and the manifest is for the project asked for.
Resolving ==
    /\ decrypted # NoCall
    /\ Len(decrypted.calls) >= 3
    /\ IsOk(load_manifest(ManifestPath, fs, dirs))
    /\ load_manifest(ManifestPath, fs, dirs).val.projectId = decrypted.project_id

StoredEntries == load_manifest(ManifestPath, fs, dirs).val.recipients
OwnPublicKey == load_keyfile(decrypted.keyfile_path, fs, dirs).val.publicKey
ByPublicKey == {i \in 1..Len(StoredEntries) : StoredEntries[i].publicKey = OwnPublicKey}
ByEmail ==
    {i \in 1..Len(StoredEntries) : lower(StoredEntries[i].email) = lower(decrypted.email)}

\* C16: decrypt goes on with the entry of the manifest that has the public
\* key of the keyfile; only when there is none, with the entry whose email is
\* the typed one (letter case aside); when there is none either, it reports
\* that access is denied and neither unseals a key nor decrypts.
C16_Resolution ==
    Resolving =>
        IF ByPublicKey # {} THEN decrypted.selected \in ByPublicKey
        ELSE IF ByEmail # {} THEN decrypted.selected \in ByEmail
        ELSE /\ decrypted.selected = 0
             /\ decrypted.panels = << <<"Access Denied", "No manifest entry found">> >>
             /\ decrypted.calls = <<"load_keyfile", "unlock_private_key", "load_manifest">>

\* carol, whose public key is in no entry, types bob's email.
C16_Witness ==
    /\ Resolving
    /\ decrypted.keyfile_path = Append(KeysDir, "carol.enc.json")
    /\ ByPublicKey = {} /\ ByEmail # {}
    /\ StoredEntries[decrypted.selected].email = "bob@example.com"
    /\ decrypted.email = "BOB@example.com"

\* alice types bob's email and still gets her own entry.
C16_WitnessKey ==
    /\ Resolving
    /\ decrypted.keyfile_path = Append(KeysDir, "alice.enc.json")
    /\ ByPublicKey = {1} /\ ByEmail = {2}
    /\ decrypted.selected = 1

\* carol types an email that is in no entry.
C16_WitnessDenied ==
    /\ Resolving
    /\ ByPublicKey = {} /\ ByEmail = {}
    /\ decrypted.selected = 0
    /\ decrypted.exit = 0

\* sub is a run of consecutive elements of seq.
HasRun(seq, sub) ==
    \E i \in 1..(Len(seq) - Len(sub) + 1) : SubSeq(seq, i, i + Len(sub) - 1) = sub

\* A base64 text holds the key: its encoding is in the text, or the text
\* decodes to bytes that have the key in them.
TextHolds(text, fk) ==
    \/ HasRun(text, Take(b64e(fk), 4 * (KEY_LENGTH \div 3)))
    \/ IsOk(b64d(text)) /\ HasRun(b64d(text).val, fk)

\* The content of the file at path holds the key in the clear.  The lines of
\* a .gitignore are the fixed entries; a manifest holds bytes only in the
\* publicKey and wrappedKey of its entries.
Holds(path, content, fk) ==
    IF path[Len(path)] = GITIGNORE_NAME THEN FALSE
    ELSE IF path = ManifestPath
    THEN \E i \in 1..Len(content[4][2]) :
            \/ TextHolds(content[4][2][i][2][2], fk)
            \/ TextHolds(content[4][2][i][3][2], fk)
    ELSE HasRun(content, fk) \/ HasRun(content, Take(b64e(fk), 4 * (KEY_LENGTH \div 3)))

\* C17: no file that a run of encrypt writes holds the file key in the clear,
\* as bytes or in base64; a completed run leaves the key only as the key
\* that opens .env.enc and, in each entry of the manifest, as a box sealed
\* for the public key of the entry.
C17_KeyNotStored ==
    [][(encrypted' # encrypted) =>
            /\ \A path \in CliPaths :
                    (fs'[path] # fs[path] /\ IsFile(fs', path)) =>
                        ~Holds(path, fs'[path][2], encrypted'.fk)
            /\ Completed(encrypted') =>
                    /\ secretbox_decrypt(encrypted'.fk, fs'[EncPath][2]) = Ok(encrypted'.env)
                    /\ \A i \in 1..Len(fs'[ManifestPath][2][4][2]) :
                            LET entry == fs'[ManifestPath][2][4][2][i]
                            IN  \E sk \in MemberKeys :
                                    /\ OwnsEntry(sk, [publicKey |-> entry[2][2]])
                                    /\ unseal_entry(sk, [wrappedKey |-> entry[3][2]])
                                         = Ok(encrypted'.fk)]_vars

C17_Witness ==
    /\ Intact
    /\ Len(fs[ManifestPath][2][4][2]) = 2
    /\ fs[EncPath] # NoFile
    /\ ~Holds(EncPath, fs[EncPath][2], encrypted.fk)
    /\ ~Holds(ManifestPath, fs[ManifestPath][2], encrypted.fk)
    /\ IsFile(fs, Append(AppDir, GITIGNORE_NAME))

\* The run made this call; it made call a before call b.
HasCall(run, call) == \E i \in 1..Len(run.calls) : run.calls[i] = call
CallBefore(run, a, b) ==
    \E i \in 1..Len(run.calls) : \E j \in (i + 1)..Len(run.calls) :
        run.calls[i] = a /\ run.calls[j] = b

\* C27: a run of decrypt unseals the file key only when the stored manifest
\* is for the project id given and the directory service has confirmed the
\* membership, and it does so after loading the manifest and after the access
\* check; when the manifest is for another project, when the service denies
\* the membership or cannot be reached, the run neither unseals nor decrypts
\* nor writes, and no file is changed.
C27_UnsealAfterChecks ==
    [][(decrypted' # decrypted) =>
            \E manifest \in {load_manifest(ManifestPath, fs, dirs)} :
                /\ HasCall(decrypted', "sealedbox_unwrap") =>
                        /\ IsOk(manifest)
                        /\ manifest.val.projectId = decrypted'.project_id
                        /\ decrypted'.access = "member"
                        /\ CallBefore(decrypted', "load_manifest", "verify_user_project_access")
                        /\ CallBefore(decrypted', "verify_user_project_access",
                                      "sealedbox_unwrap")
                /\ (\/ IsOk(manifest) /\ manifest.val.projectId # decrypted'.project_id
                    \/ decrypted'.access # "member") =>
                        /\ ~HasCall(decrypted', "sealedbox_unwrap")
                        /\ ~HasCall(decrypted', "file_decrypt")
                        /\ ~HasCall(decrypted', "write_bytes")
                        /\ fs' = fs]_vars

\* bob, a member with the right password, asks for another project than the
\* one of the manifest: the run ends after loading the manifest.
C27_Witness ==
    /\ Completed(encrypted) /\ decrypted # NoCall
    /\ decrypted.keyfile_path = Append(KeysDir, "bob.enc.json")
    /\ decrypted.access = "member"
    /\ decrypted.project_id = "project-456"
    /\ encrypted.project_id = "project-123"
    /\ decrypted.calls = <<"load_keyfile", "unlock_private_key", "load_manifest">>
    /\ decrypted.panels = << <<"Project Mismatch", "Manifest is for another project">> >>
    /\ fs[OutEnvPath] = NoFile

\* The directory service cannot be reached: the run ends at the access check.
C27_WitnessUnreachable ==
    /\ Completed(encrypted) /\ decrypted # NoCall
    /\ decrypted.access = "unreachable"
    /\ decrypted.selected # 0
    /\ decrypted.calls[Len(decrypted.calls)] = "verify_user_project_access"
    /\ fs[OutEnvPath] = NoFile

\* Both checks passed and the key was unsealed.
C27_WitnessUnsealed ==
    /\ decrypted # NoCall
    /\ HasCall(decrypted, "sealedbox_unwrap") /\ HasCall(decrypted, "write_bytes")
    /\ IsFile(fs, OutEnvPath)

(***************************************************************************)
(* Sequences of calls of secretbox_encrypt.  boxes is the history of the   *)
(* calls and drawn the values that random(SECRETBOX_NONCE_SIZE) has        *)
(* returned so far.  The random source is taken to be ideal: it returns    *)
(* SECRETBOX_NONCE_SIZE bytes that it has not returned before, whatever    *)
(* the key and the plaintext of the call are.  A call with a key of the    *)
(* wrong length raises before it draws.                                    *)
(***************************************************************************)
NumNonces == 3
MaxCalls == 3
NoncePool == {NonceOf(n) : n \in 1..NumNonces}
CallPlaintexts == {Take(EnvBytes, 3), EnvBytes}

NonceCalls ==
    {[op |-> "secretbox_encrypt", key |-> key, plaintext |-> plaintext,
      random |-> IF Len(key) # KEY_LENGTH THEN <<>> ELSE nonce,
      ret |-> secretbox_encrypt(key, plaintext, nonce)] :
        key \in Keys, plaintext \in CallPlaintexts, nonce \in NoncePool}

NonceFrame ==
    UNCHANGED <<box, wire, unbox, fs, dirs, created, kfile, unlocked, built, unsealed,
                encrypted, decrypted, validated>>

SecretboxEncryptNext ==
    /\ Len(boxes) < MaxCalls
    /\ \E call \in NonceCalls :
        /\ call.random \notin drawn
        /\ boxes' = Append(boxes, call)
        /\ drawn' = IF call.random = <<>> THEN drawn ELSE drawn \cup {call.random}
    /\ NonceFrame

NextNonce == SecretboxEncryptNext

SpecNonce == Init /\ [][NextNonce]_vars

Returning == {i \in 1..Len(boxes) : IsOk(boxes[i].ret)}
NonceIn(payload) == Take(payload, SECRETBOX_NONCE_SIZE)

\* C18: each call of secretbox_encrypt that returns has drawn 24 bytes from
\* the random source and put them, as they are, in front of the payload, and
\* over the history of the calls no two payloads made under one key start
\* with the same nonce, also when key and plaintext are the same.
C18_FreshNonce ==
    /\ \A i \in Returning :
            /\ Len(boxes[i].random) = SECRETBOX_NONCE_SIZE
            /\ boxes[i].random \in drawn
            /\ NonceIn(boxes[i].ret.val) = boxes[i].random
    /\ \A i \in Returning : \A j \in Returning :
            (i # j /\ boxes[i].key = boxes[j].key) =>
                NonceIn(boxes[i].ret.val) # NonceIn(boxes[j].ret.val)

\* Three calls with one key and one plaintext, three different nonces.
C18_Witness ==
    /\ Len(boxes) = 3 /\ Returning = {1, 2, 3}
    /\ boxes[1].key = boxes[2].key /\ boxes[2].key = boxes[3].key
    /\ boxes[1].plaintext = boxes[2].plaintext /\ boxes[2].plaintext = boxes[3].plaintext
    /\ Cardinality({NonceIn(boxes[i].ret.val) : i \in 1..3}) = 3

(***************************************************************************)
(* Validation of the records.  A RecipientsExport is constructed from a    *)
(* list of recipients as build_recipients_export does; a Manifest is       *)
(* constructed from a list of entries, saved, changed where it is stored   *)
(* and loaded again.                                                       *)
(***************************************************************************)
MaxExportLen == 3

\* The recipients of the pool and bob once more, spelled with a capital.
ExportPool == Pool \cup {Recipient("Bob@example.com", b64e(PublicOf(SecretKeyOf(2)))).val}
ExportLists == UNION {[1..n -> ExportPool] : n \in 0..MaxExportLen}

ExportCalls ==
    {[op |-> "RecipientsExport", projectId |-> projectId, recipients |-> recipients,
      ret |-> build_recipients_export(projectId, recipients)] :
        projectId \in ProjectIds, recipients \in ExportLists}

\* An entry for a recipient; its wrappedKey has the size of a sealed file key.
EntryOf(recipient) ==
    ManifestRecipient(recipient.email, recipient.publicKey,
                      b64e(Gen(61, PUBLICKEY_SIZE + MACBYTES + KEY_LENGTH))).val
EntryLists == UNION {[1..n -> {EntryOf(r) : r \in ExportPool}] : n \in 0..MaxRecipients}

ManifestCalls ==
    {[op |-> "Manifest", projectId |-> projectId, recipients |-> recipients,
      ret |-> Manifest(projectId, recipients)] :
        projectId \in ProjectIds, recipients \in EntryLists}

InitTypes ==
    /\ box = NoCall /\ wire = <<>> /\ unbox = NoCall
    /\ created = NoCall /\ kfile = NoCall /\ unlocked = NoCall
    /\ built = NoCall /\ unsealed = NoCall
    /\ encrypted = NoCall /\ decrypted = NoCall
    /\ boxes = <<>> /\ drawn = {}
    /\ validated = NoCall
    /\ fs = [p \in CliPaths |-> NoFile]
    /\ dirs = {<<>>}

TypesFrame ==
    UNCHANGED <<box, wire, unbox, created, kfile, unlocked, built, unsealed,
                encrypted, decrypted, boxes, drawn>>

ConstructExport ==
    /\ fs[ManifestPath] = NoFile
    /\ \E call \in ExportCalls : validated' = call
    /\ UNCHANGED <<fs, dirs>>
    /\ TypesFrame

ConstructManifest ==
    /\ fs[ManifestPath] = NoFile
    /\ \E call \in ManifestCalls : validated' = call
    /\ UNCHANGED <<fs, dirs>>
    /\ TypesFrame

SaveManifest ==
    /\ validated.op = "Manifest" /\ IsOk(validated.ret)
    /\ fs[ManifestPath] = NoFile
    /\ LET saved == save_manifest(validated.ret.val, OutDir, fs, dirs)
       IN  fs' = saved.fs /\ dirs' = saved.dirs
    /\ UNCHANGED validated
    /\ TypesFrame

SetMember(obj, name, value) ==
    [i \in 1..Len(obj) |-> IF obj[i][1] = name THEN <<name, value>> ELSE obj[i]]
IsNot(name, member) == member[1] # name
DropMember(obj, name) == SelectSeq(obj, LAMBDA member : IsNot(name, member))

\* An email as someone may have typed it into the stored manifest.
Respelled(email) == IF email = "bob@example.com" THEN "bob@Example.COM" ELSE email

NumAlterations == 11
\* The stored manifest after someone edited it.
Altered(text, k) ==
    LET entries == Member(text, "recipients") IN
    CASE k = 1  -> SetMember(text, "version", 2)
      [] k = 2  -> SetMember(text, "version", 0)
      [] k = 3  -> SetMember(text, "algo", "aes-256-gcm")
      [] k = 4  -> SetMember(text, "recipients", <<>>)
      [] k = 5  -> SetMember(text, "recipients", Append(entries, entries[1]))
      [] k = 6  -> SetMember(text, "recipients",
                             Append(entries,
                                    SetMember(entries[Len(entries)], "email",
                                              Respelled(Member(entries[Len(entries)], "email")))))
      [] k = 7  -> DropMember(text, "version")
      [] k = 8  -> DropMember(text, "algo")
      [] k = 9  -> DropMember(text, "recipients")
      [] k = 10 -> SetMember(text, "recipients",
                             <<SetMember(entries[1], "email", "not-an-email")>>)
      [] OTHER  -> <<>>

AlterStored ==
    /\ validated.op = "Manifest" /\ IsOk(validated.ret)
    /\ fs[ManifestPath] = File(manifest_dump_json(validated.ret.val))
    /\ \E k \in 1..NumAlterations :
            fs' = [fs EXCEPT ![ManifestPath] = File(Altered(fs[ManifestPath][2], k))]
    /\ UNCHANGED <<dirs, validated>>
    /\ TypesFrame

LoadManifest ==
    /\ validated.op = "Manifest"
    /\ IsFile(fs, ManifestPath)
    /\ validated' = [op |-> "load_manifest", text |-> fs[ManifestPath][2],
                     ret |-> load_manifest(ManifestPath, fs, dirs)]
    /\ UNCHANGED <<fs, dirs>>
    /\ TypesFrame

NextTypes ==
    ConstructExport \/ ConstructManifest \/ SaveManifest \/ AlterStored \/ LoadManifest

SpecTypes == InitTypes /\ [][NextTypes]_vars

\* Two of the emails are one: as written, or once validated.
OneEmail(a, b) ==
    a = b \/ (IsOk(EmailStr(a)) /\ IsOk(EmailStr(b)) /\ EmailStr(a).val = EmailStr(b).val)

\* The stored text has the members of a manifest and breaks one of its rules.
Violating(text) ==
    /\ text # <<>>
    /\ HasMember(text, "recipients")
    /\ \/ HasMember(text, "version") /\ Member(text, "version") # 1
       \/ HasMember(text, "algo") /\ Member(text, "algo") # "xsalsa20poly1305"
       \/ Len(Member(text, "recipients")) = 0
       \/ LET entries == Member(text, "recipients")
          IN  \E i \in 1..Len(entries) : \E j \in 1..Len(entries) :
                  i # j /\ OneEmail(Member(entries[i], "email"), Member(entries[j], "email"))

\* C19: a Manifest that its construction or load_manifest returns has at
\* least one recipient, no email twice, version 1 and algo xsalsa20poly1305;
\* load_manifest raises ValidationError for a stored manifest with another
\* version or algo, with no recipient or with an email twice.
C19_ManifestInvariants ==
    /\ (validated.op \in {"Manifest", "load_manifest"} /\ IsOk(validated.ret)) =>
            LET manifest == validated.ret.val
            IN  /\ Len(manifest.recipients) >= 1
                /\ \A i \in 1..Len(manifest.recipients) :
                       \A j \in 1..Len(manifest.recipients) :
                           i # j => manifest.recipients[i].email # manifest.recipients[j].email
                /\ manifest.version = 1
                /\ manifest.algo = "xsalsa20poly1305"
    /\ (validated.op = "load_manifest" /\ Violating(validated.text)) =>
            (~IsOk(validated.ret) /\ Caught(validated.ret, "ValidationError"))

\* A stored manifest of two entries whose version was set to 2 is loaded.
C19_Witness ==
    /\ validated.op = "load_manifest"
    /\ Violating(validated.text)
    /\ Member(validated.text, "version") = 2
    /\ Len(Member(validated.text, "recipients")) = 2
    /\ ~IsOk(validated.ret)

\* A stored manifest without its version member is loaded, with version 1.
C19_WitnessLoaded ==
    /\ validated.op = "load_manifest"
    /\ validated.text # <<>> /\ ~HasMember(validated.text, "version")
    /\ IsOk(validated.ret)
    /\ Len(validated.ret.val.recipients) = 2

\* bob is stored twice, in two spellings of one address.
C19_WitnessRespelled ==
    /\ validated.op = "load_manifest"
    /\ validated.text # <<>> /\ HasMember(validated.text, "recipients")
    /\ LET entries == Member(validated.text, "recipients")
       IN  /\ Len(entries) = 2
           /\ Member(entries[1], "email") = "bob@example.com"
           /\ Member(entries[2], "email") = "bob@Example.COM"
    /\ validated.ret = Raise("ValidationError", "Duplicate manifest recipient emails detected")

\* C20: a RecipientsExport that validation returns has no email twice, and
\* for a list in which two entries have one email there is no object but a
\* ValidationError.
C20_DistinctEmails ==
    (validated.op = "RecipientsExport") =>
        LET given == validated.recipients IN
        /\ IsOk(validated.ret) =>
                /\ validated.ret.val.recipients = given
                /\ \A i \in 1..Len(given) : \A j \in 1..Len(given) :
                        i # j => given[i].email # given[j].email
        /\ (\E i \in 1..Len(given) : \E j \in 1..Len(given) :
                i # j /\ given[i].email = given[j].email) =>
                validated.ret = Raise("ValidationError", "Duplicate recipient emails detected")

\* Three recipients, the first and the last with one email.
C20_Witness ==
    /\ validated.op = "RecipientsExport"
    /\ Len(validated.recipients) = 3
    /\ validated.recipients[1].email = validated.recipients[3].email
    /\ validated.recipients[1].email # validated.recipients[2].email
    /\ ~IsOk(validated.ret)

\* Two spellings of bob's address that differ before the @ are two emails.
C20_WitnessAccepted ==
    /\ validated.op = "RecipientsExport"
    /\ Len(validated.recipients) = 2
    /\ validated.recipients[1].email = "bob@example.com"
    /\ validated.recipients[2].email = "Bob@example.com"
    /\ IsOk(validated.ret)


\* The manifest with its recipients in the opposite order.
Reversed(manifest) ==
    [manifest EXCEPT !.recipients =
        [i \in 1..Len(manifest.recipients) |->
            manifest.recipients[Len(manifest.recipients) + 1 - i]]]

\* The entries that the comparison of the email fallback holds equal to the
\* typed email.
EmailHits(manifest, email) ==
    {i \in 1..Len(manifest.recipients) : lower(manifest.recipients[i].email) = lower(email)}

\* C26: in a manifest that validation accepted, constructed or loaded, the
\* comparison of the email fallback holds at most one entry equal to a typed
\* email, and the entry the fallback takes is the same when the recipients
\* are in the opposite order.
C26_OneEmailMatch ==
    (validated.op \in {"Manifest", "load_manifest"} /\ IsOk(validated.ret)) =>
        \A email \in TypedEmails :
            /\ Cardinality(EmailHits(validated.ret.val, email)) <= 1
            /\ match_email(validated.ret.val, email) # 0 =>
                    validated.ret.val.recipients[match_email(validated.ret.val, email)]
                      = Reversed(validated.ret.val).recipients[
                            match_email(Reversed(validated.ret.val), email)]

(***************************************************************************)
(* init.  password is what the user typed twice; sk, salt and nonce are    *)
(* what create_keyfile drew.  cwd is the working directory of the process. *)
(***************************************************************************)
HOME_KEY_DIR == <<"home", ".ripenv">>

\* save_keyfile: the file system it leaves, or the exception raised.
save_keyfile(keyfile, out_path, files, directories) ==
    LET made    == mkdir_parents(out_path, files, directories)
        written == IF IsOk(made)
                   THEN write_text(out_path, model_dump_json(keyfile), files, made.val)
                   ELSE made
    IN  [ret  |-> IF IsOk(written) THEN Ok(out_path) ELSE written,
         fs   |-> IF IsOk(written) THEN written.val ELSE files,
         dirs |-> IF IsOk(made) THEN made.val ELSE directories]

KeyfileSetup ==
    <<"Keyfile Setup", "Create a secure keyfile to encrypt and decrypt environment secrets.">>

\* The steps of init, the last one first.
init_done(saved) ==
    IF ~IsOk(saved.ret)
    THEN Propagated(saved.ret, <<KeyfileSetup>>, <<"create_keyfile">>, saved.fs, saved.dirs)
    ELSE Returned(<<KeyfileSetup,
                    <<"Keyfile Created!",
                      "Your encrypted keyfile has been generated successfully.">> >>,
                  <<"create_keyfile", "save_keyfile">>, saved.fs, saved.dirs)

init_save(home_key_path, made) ==
    IF ~IsOk(made.ret) THEN Propagated(made.ret, <<KeyfileSetup>>, <<>>, made.fs, made.dirs)
    ELSE init_done(save_keyfile(made.ret.val, home_key_path, made.fs, made.dirs))

init_create(cwd_key_path, home_key_path, password, sk, salt, nonce, files, directories, checked) ==
    IF ~IsOk(checked)
    THEN Propagated(checked, <<KeyfileSetup, ErrorPanel(checked.msg)>>, <<>>,
                    files, directories)
    ELSE init_save(home_key_path,
                   create_keyfile(new_keyfile(password, sk, salt, nonce), cwd_key_path,
                                  files, directories))

init_check(cwd_key_path, home_key_path, force, password, sk, salt, nonce, files, directories, checked) ==
    IF ~IsOk(checked)
    THEN Propagated(checked, <<KeyfileSetup, ErrorPanel(checked.msg)>>, <<>>,
                    files, directories)
    ELSE init_create(cwd_key_path, home_key_path, password, sk, salt, nonce,
                     files, directories,
                     check_overwrite(home_key_path, force, files, directories))

\* init asking only whether the working-directory keyfile exists.
init_CwdOnly(filename, force, password, sk, salt, nonce, cwd, files, directories) ==
    init_create(Append(cwd, filename), Append(HOME_KEY_DIR, filename), password, sk, salt,
                nonce, files, directories,
                check_overwrite(Append(cwd, filename), force, files, directories))

init(filename, force, password, sk, salt, nonce, cwd, files, directories) ==
    init_check(Append(cwd, filename), Append(HOME_KEY_DIR, filename), force, password, sk,
               salt, nonce, files, directories,
               check_overwrite(Append(cwd, filename), force, files, directories))

(***************************************************************************)
(* Keyfiles on disk: init run in a working directory, the stored keyfiles  *)
(* edited or removed by their owner, load_keyfile on what is there.        *)
(***************************************************************************)
WorkDir == <<"work">>
HomeDir == <<"home">>
CwdKeyPath == Append(WorkDir, DEFAULT_KEYFILE_NAME)
HomeKeyPath == Append(HOME_KEY_DIR, DEFAULT_KEYFILE_NAME)
InitPaths == {CwdKeyPath, HomeKeyPath, HOME_KEY_DIR}

\* The home directory either has no .ripenv yet or has a file of that name.
InitWorlds ==
    {[fs   |-> [p \in InitPaths |-> IF p = HOME_KEY_DIR /\ taken THEN File(<<>>) ELSE NoFile],
      dirs |-> {<<>>, WorkDir, HomeDir}] : taken \in BOOLEAN}

InitKeys ==
    /\ box = NoCall /\ wire = <<>> /\ unbox = NoCall
    /\ created = NoCall /\ kfile = NoCall /\ unlocked = NoCall
    /\ built = NoCall /\ unsealed = NoCall
    /\ encrypted = NoCall /\ decrypted = NoCall
    /\ boxes = <<>> /\ drawn = {}
    /\ validated = NoCall
    /\ \E world \in InitWorlds : fs = world.fs /\ dirs = world.dirs

KeysFrame ==
    UNCHANGED <<box, wire, unbox, kfile, unlocked, built, unsealed, encrypted, decrypted,
                boxes, drawn>>

InitCommand ==
    /\ \E force \in BOOLEAN, password \in Passwords, sk \in {SecretKeyOf(1), SecretKeyOf(2)} :
        \E run \in {init(DEFAULT_KEYFILE_NAME, force, password, sk, Gen(41, SALT_LENGTH),
                         NonceOf(1), WorkDir, fs, dirs)} :
            /\ created' = [op |-> "init", force |-> force, password |-> password, sk |-> sk,
                           exit |-> run.exit, exc |-> run.exc, panels |-> run.panels,
                           calls |-> run.calls]
            /\ fs' = run.fs
            /\ dirs' = run.dirs
    /\ validated' = NoCall
    /\ KeysFrame

\* The ways a stored keyfile is edited: a field emptied; another kdf value,
\* an empty one, one in another case; the kdf member removed; the public key
\* replaced by one character; the text emptied.
NumKeyfileEdits == 9

Edited(text, k) ==
    CASE k = 1 -> SetMember(text, "publicKey", <<>>)
      [] k = 2 -> SetMember(text, "encPrivateKey", <<>>)
      [] k = 3 -> SetMember(text, "salt", <<>>)
      [] k = 4 -> SetMember(text, "kdf", "scrypt")
      [] k = 5 -> SetMember(text, "kdf", "")
      [] k = 6 -> SetMember(text, "kdf", "Argon2id")
      [] k = 7 -> DropMember(text, "kdf")
      [] k = 8 -> SetMember(text, "publicKey", <<0>>)
      [] OTHER -> <<>>

\* A keyfile as init wrote it is edited.
EditKeyfile ==
    /\ \E path \in {CwdKeyPath, HomeKeyPath}, k \in 1..NumKeyfileEdits :
        /\ IsFile(fs, path)
        /\ IsOk(load_keyfile(path, fs, dirs))
        /\ Len(load_keyfile(path, fs, dirs).val.publicKey) > 1
        /\ fs' = [fs EXCEPT ![path] = File(Edited(fs[path][2], k))]
    /\ created' = NoCall
    /\ validated' = NoCall
    /\ UNCHANGED dirs
    /\ KeysFrame

\* The owner removes a keyfile.
RemoveKeyfile ==
    /\ \E path \in {CwdKeyPath, HomeKeyPath} :
        /\ IsFile(fs, path)
        /\ fs' = [fs EXCEPT ![path] = NoFile]
    /\ created' = NoCall
    /\ validated' = NoCall
    /\ UNCHANGED dirs
    /\ KeysFrame

LoadKeyfile ==
    /\ \E path \in {CwdKeyPath, HomeKeyPath} :
        validated' = [op |-> "load_keyfile", path |-> path, stored |-> fs[path],
                      ret |-> load_keyfile(path, fs, dirs)]
    /\ UNCHANGED <<created, fs, dirs>>
    /\ KeysFrame

NextKeys == InitCommand \/ EditKeyfile \/ RemoveKeyfile \/ LoadKeyfile

SpecKeys == InitKeys /\ [][NextKeys]_vars

\* The stored text is a JSON object with a member of this name.
Stored(stored, name) ==
    stored[1] = "file" /\ stored[2] # <<>> /\ HasMember(stored[2], name)

\* C21: every KeyFile that load_keyfile returns has a non-empty publicKey,
\* encPrivateKey and salt and the kdf "argon2id", and they are the stored
\* ones; a stored keyfile with one of the three fields empty or with another
\* kdf value is rejected by the load with a validation error.
C21_KeyFileInvariants ==
    (validated # NoCall /\ validated.op = "load_keyfile") =>
        /\ IsOk(validated.ret) =>
            /\ Len(validated.ret.val.publicKey) >= 1
            /\ Len(validated.ret.val.encPrivateKey) >= 1
            /\ Len(validated.ret.val.salt) >= 1
            /\ validated.ret.val.kdf = "argon2id"
            /\ model_dump_json(validated.ret.val) = validated.stored[2]
        /\ (\/ \E name \in {"publicKey", "encPrivateKey", "salt"} :
                    Stored(validated.stored, name) /\ Member(validated.stored[2], name) = <<>>
            \/ /\ Stored(validated.stored, "kdf")
               /\ Member(validated.stored[2], "kdf") # "argon2id") =>
                /\ ~IsOk(validated.ret)
                /\ validated.ret.exc = "ValidationError"

\* A keyfile written by init whose salt was emptied has been refused.
C21_Witness ==
    /\ validated # NoCall /\ validated.op = "load_keyfile"
    /\ Stored(validated.stored, "salt") /\ Member(validated.stored[2], "salt") = <<>>
    /\ Stored(validated.stored, "kdf") /\ Member(validated.stored[2], "kdf") = "argon2id"
    /\ ~IsOk(validated.ret)

\* One with the kdf "scrypt" has been refused.
C21_WitnessKdf ==
    /\ validated # NoCall /\ validated.op = "load_keyfile"
    /\ Stored(validated.stored, "kdf") /\ Member(validated.stored[2], "kdf") = "scrypt"
    /\ ~IsOk(validated.ret)

\* The keyfile that init left in the home directory has been loaded.
C21_WitnessLoaded ==
    /\ validated # NoCall /\ validated.op = "load_keyfile"
    /\ validated.path = HomeKeyPath
    /\ created # NoCall /\ created.exit = 0
    /\ IsOk(validated.ret)
    /\ b64d(validated.ret.val.publicKey) = Ok(PublicOf(created.sk))

\* C29: without --force, init changes no file when a keyfile exists at the
\* working-directory path or at the home path: it aborts before it writes to
\* either place.  Without --force no existing file is ever given new content.
\* When init succeeds, both places hold the same keyfile record.
C29_InitNoOverwrite ==
    [][(created' # created /\ created' # NoCall) =>
            /\ (~created'.force /\ (exists(CwdKeyPath, fs, dirs) \/ exists(HomeKeyPath, fs, dirs))) =>
                    /\ fs' = fs /\ dirs' = dirs
                    /\ created'.exc = "Abort" /\ created'.calls = <<>>
            /\ ~created'.force => \A p \in InitPaths : IsFile(fs, p) => fs'[p] = fs[p]
            /\ created'.exit = 0 =>
                    /\ IsFile(fs', CwdKeyPath) /\ fs'[CwdKeyPath] = fs'[HomeKeyPath]
                    /\ IsOk(load_keyfile(CwdKeyPath, fs', dirs'))
                    /\ load_keyfile(CwdKeyPath, fs', dirs') = load_keyfile(HomeKeyPath, fs', dirs')
                    /\ b64d(load_keyfile(HomeKeyPath, fs', dirs').val.publicKey)
                         = Ok(PublicOf(created'.sk))]_vars

\* Only the home copy is left, init is run without --force and aborts: the
\* home copy is the one of the earlier run and the working directory has none.
C29_Witness ==
    /\ created # NoCall /\ ~created.force /\ created.exc = "Abort"
    /\ fs[CwdKeyPath] = NoFile
    /\ IsFile(fs, HomeKeyPath)

\* init has succeeded with --force.
C29_WitnessForced ==
    /\ created # NoCall /\ created.force /\ created.exit = 0
    /\ fs[CwdKeyPath] = fs[HomeKeyPath]
    /\ b64d(Member(fs[HomeKeyPath][2], "publicKey")) = Ok(PublicOf(created.sk))


(***************************************************************************)
(* The codec as called: b64e on a byte string, the '=' at the end of the   *)
(* text taken off one at a time, b64d on the text.                         *)
(***************************************************************************)
MaxDataLen == 4
CodecBytes == {0, 97, 255}

RECURSIVE BytesUpTo(_)
BytesUpTo(n) ==
    IF n = 0 THEN {<<>>}
    ELSE BytesUpTo(n - 1)
         \cup {Append(d, b) : d \in {e \in BytesUpTo(n - 1) : Len(e) = n - 1}, b \in CodecBytes}

\* Short byte strings of every length, and the byte strings the program
\* encodes: a public key, a salt, a file key.
CodecInputs ==
    BytesUpTo(MaxDataLen)
    \cup {PublicOf(SecretKeyOf(1)), Gen(41, SALT_LENGTH), Fill(KEY_LENGTH, 255)}

CodecFrame ==
    UNCHANGED <<fs, dirs, created, kfile, unlocked, built, unsealed, encrypted, decrypted,
                boxes, drawn, validated>>

B64Encode ==
    /\ \E data \in CodecInputs :
        /\ box' = [op |-> "b64e", data |-> data, ret |-> b64e(data)]
        /\ wire' = b64e(data)
    /\ unbox' = NoCall
    /\ CodecFrame

StripPad ==
    /\ wire # <<>> /\ wire[Len(wire)] = B64Pad
    /\ wire' = Take(wire, Len(wire) - 1)
    /\ unbox' = NoCall
    /\ UNCHANGED box
    /\ CodecFrame

B64Decode ==
    /\ box # NoCall
    /\ unbox' = [op |-> "b64d", text |-> wire, ret |-> b64d(wire)]
    /\ UNCHANGED <<box, wire>>
    /\ CodecFrame

NextCodec == B64Encode \/ StripPad \/ B64Decode

SpecCodec == Init /\ [][NextCodec]_vars

\* C22: b64d of what b64e returned for x is x, and b64d returns the same
\* bytes for the encoded text and for the text with '=' taken off its end.
C22_CodecRoundTrip ==
    (unbox # NoCall /\ unbox.op = "b64d") =>
        /\ unbox.ret = Ok(box.data)
        /\ unbox.ret = urlsafe_b64decode(box.ret)

\* A text of 22 characters, the two '=' of a salt's encoding taken off, has
\* been decoded.
C22_Witness ==
    /\ unbox # NoCall /\ unbox.op = "b64d"
    /\ Len(box.data) = SALT_LENGTH
    /\ Len(box.ret) = Len(unbox.text) + 2
    /\ unbox.text # <<>> /\ unbox.text[Len(unbox.text)] # B64Pad
    /\ IsOk(unbox.ret)

\* The padded text has been decoded.
C22_WitnessPadded ==
    /\ unbox # NoCall /\ unbox.op = "b64d"
    /\ unbox.text = box.ret
    /\ unbox.text # <<>> /\ unbox.text[Len(unbox.text)] = B64Pad

\* The text ends with '='.
Padded(text) == text # <<>> /\ text[Len(text)] = B64Pad

\* C23: the b64 fields of a stored keyfile, publicKey, encPrivateKey and
\* salt, are base64 without padding: none of them ends with '='.
C23_StoredUnpadded ==
    (created # NoCall /\ created.op = "init" /\ created.exit = 0) =>
        \A path \in {CwdKeyPath, HomeKeyPath} :
            \A name \in {"publicKey", "encPrivateKey", "salt"} :
                ~Padded(Member(fs[path][2], name))


(***************************************************************************)
(* ensure_gitignore_entry as called, over the .gitignore files it may      *)
(* find in the directory.                                                  *)
(***************************************************************************)
IgnorePath == Append(AppDir, GITIGNORE_NAME)

\* The .gitignore before the first call: none; an empty one; one of another
\* tool, with and without a newline at its end; one that ignores .env under
\* the header of an earlier run, saved by an editor without the last
\* newline; one that ignores .env with spaces around it; one that names the
\* manifest in its only line.
IgnoreTexts ==
    {[lines |-> <<>>, eol |-> FALSE],
     [lines |-> <<"node_modules">>, eol |-> TRUE],
     [lines |-> <<"node_modules">>, eol |-> FALSE],
     [lines |-> <<"", GITIGNORE_HEADER, DEFAULT_ENV_NAME>>, eol |-> TRUE],
     [lines |-> <<"", GITIGNORE_HEADER, DEFAULT_ENV_NAME>>, eol |-> FALSE],
     [lines |-> <<" .env", "#.env">>, eol |-> TRUE],
     [lines |-> <<"ripenv.manifest.json">>, eol |-> FALSE]}

IgnoreWorlds ==
    {[p \in CliPaths |-> NoFile]}
    \cup {[p \in CliPaths |-> IF p = IgnorePath THEN File(text) ELSE NoFile] :
            text \in IgnoreTexts}

InitIgnore ==
    /\ box = NoCall /\ wire = <<>> /\ unbox = NoCall
    /\ created = NoCall /\ kfile = NoCall /\ unlocked = NoCall
    /\ built = NoCall /\ unsealed = NoCall
    /\ encrypted = NoCall /\ decrypted = NoCall
    /\ boxes = <<>> /\ drawn = {}
    /\ validated = NoCall
    /\ fs \in IgnoreWorlds
    /\ dirs = {<<>>, AppDir}

IgnoreFrame ==
    UNCHANGED <<box, wire, unbox, created, kfile, unlocked, unsealed, encrypted, decrypted,
                boxes, validated>>

\* drawn holds the entries asked for so far.
EnsureGitignoreEntry ==
    /\ \E entry \in IgnoreEntries :
        /\ built' = [op |-> "ensure_gitignore_entry", entry |-> entry,
                     before |-> fs[IgnorePath]]
        /\ drawn' = drawn \cup {entry}
        /\ fs' = ensure_gitignore_entry(AppDir, entry, fs, dirs)
    /\ UNCHANGED dirs
    /\ IgnoreFrame

NextIgnore == EnsureGitignoreEntry

SpecIgnore == InitIgnore /\ [][NextIgnore]_vars

LinesOf(stored) == IF stored[1] = "file" THEN stored[2].lines ELSE <<>>

RECURSIVE IsSubSeq(_, _)
\* The elements of a occur in b in the order of a.
IsSubSeq(a, b) ==
    IF a = <<>> THEN TRUE
    ELSE IF b = <<>> THEN FALSE
    ELSE IF a[1] = b[1] THEN IsSubSeq(Tail(a), Tail(b))
    ELSE IsSubSeq(a, Tail(b))

\* The lines that ignore the entry.
LinesWith(lines, entry) ==
    {i \in 1..Len(lines) : ~IsComment(strip(lines[i])) /\ strip(lines[i]) = entry}

\* C30: after every call of ensure_gitignore_entry each entry asked for so
\* far is on exactly one line of .gitignore that is no comment, a second
\* call with the same entry leaves the file as it is, and the lines that
\* were there before the call are all still there, in their order.
C30_IdempotentAppendOnly ==
    (built # NoCall /\ built.op = "ensure_gitignore_entry") =>
        /\ \A entry \in drawn : Cardinality(LinesWith(LinesOf(fs[IgnorePath]), entry)) = 1
        /\ ensure_gitignore_entry(AppDir, built.entry, fs, dirs) = fs
        /\ IsSubSeq(LinesOf(built.before), LinesOf(fs[IgnorePath]))


(***************************************************************************)
(* Runs of encrypt one after another on one output folder.  Between the    *)
(* runs the owner may rewrite .env or take .env.enc out of the folder, and *)
(* a run may be ended from outside (the terminal's interrupt, the end of   *)
(* the process) after enc_path.write_bytes and before save_manifest.       *)
(***************************************************************************)
RunFileKeys == {CliFileKey, OldFileKey}
RunResponses == UsableResponses \cup {Unreachable}

RunFrame ==
    UNCHANGED <<box, wire, unbox, created, kfile, unlocked, built, unsealed, decrypted,
                boxes, drawn, validated>>

\* A run of encrypt.  A run that comes to write .env.enc may be ended before
\* save_manifest: of what the whole run would do, the output folder and the
\* payload are then there.
EncryptRun ==
    /\ \E force \in BOOLEAN, delete \in BOOLEAN, response \in RunResponses, fk \in RunFileKeys :
        \E run \in {encrypt(EnvPath, "project-123", OutDir, force, delete, response,
                             fk, NonceOf(1), CliDraws, fs, dirs)} :
            \E stopped \in {FALSE} \cup {Len(run.calls) >= 3} :
                /\ encrypted' =
                        [op |-> "encrypt", project_id |-> "project-123", force |-> force,
                         delete |-> delete, response |-> response, fk |-> fk,
                         env |-> fs[EnvPath],
                         exit |-> IF stopped THEN 130 ELSE run.exit,
                         exc |-> IF stopped THEN "KeyboardInterrupt" ELSE run.exc,
                         panels |-> IF stopped THEN <<>> ELSE run.panels,
                         calls |-> IF stopped THEN Take(run.calls, 3) ELSE run.calls]
                /\ fs' = IF stopped THEN [fs EXCEPT ![EncPath] = run.fs[EncPath]] ELSE run.fs
                /\ dirs' = run.dirs
    /\ RunFrame

\* The owner writes .env anew.
EditEnv ==
    /\ fs[EnvPath] # File(EnvBytes)
    /\ fs' = [fs EXCEPT ![EnvPath] = File(EnvBytes)]
    /\ encrypted' = NoCall
    /\ UNCHANGED dirs
    /\ RunFrame

\* The owner takes .env.enc out of the output folder.
RemovePayload ==
    /\ IsFile(fs, EncPath)
    /\ fs' = [fs EXCEPT ![EncPath] = NoFile]
    /\ encrypted' = NoCall
    /\ UNCHANGED dirs
    /\ RunFrame

NextRuns == EncryptRun \/ EditEnv \/ RemovePayload

SpecRuns == InitCli /\ [][NextRuns]_vars

\* The entries of the stored manifest.
EntriesOf(files) == files[ManifestPath][2][4][2]

\* C24: whenever .env.enc and ripenv.manifest.json are both in the output
\* folder, after any runs of encrypt, there is one file key that opens
\* .env.enc and that every wrappedKey of the manifest unseals to.
C24_PairConsistent ==
    (IsFile(fs, EncPath) /\ IsFile(fs, ManifestPath)) =>
        \E fk \in RunFileKeys :
            /\ IsOk(secretbox_decrypt(fk, fs[EncPath][2]))
            /\ \A i \in 1..Len(EntriesOf(fs)) :
                    \E sk \in MemberKeys :
                        /\ OwnsEntry(sk, [publicKey |-> EntriesOf(fs)[i][2][2]])
                        /\ unseal_entry(sk, [wrappedKey |-> EntriesOf(fs)[i][3][2]]) = Ok(fk)

\* A step of the specification is a run of encrypt.
RunStep == encrypted' # encrypted /\ encrypted' # NoCall

\* C25: a run of encrypt without --force leaves .env.enc and
\* ripenv.manifest.json, where they exist, with the content they had.
C25_NoOverwrite ==
    [][(RunStep /\ ~encrypted'.force) =>
            \A path \in {EncPath, ManifestPath} :
                IsFile(fs, path) => fs'[path] = fs[path]]_vars

\* The calls of the run include both writes.
BothWritten(run) ==
    /\ \E i \in 1..Len(run.calls) : run.calls[i] = "write_bytes"
    /\ \E i \in 1..Len(run.calls) : run.calls[i] = "save_manifest"

\* C28: a run of encrypt changes the original .env only by removing it, only
\* with --delete and only after .env.enc and the manifest have been written:
\* both are then in the output folder, .env.enc holding the content of the
\* original under the file key of the run.  A run that does not come to
\* write both leaves the original as it was, and a run with --delete that
\* completes has removed it.
C28_DeleteAfterWrites ==
    [][RunStep =>
            /\ fs'[EnvPath] # fs[EnvPath] =>
                    /\ encrypted'.delete /\ BothWritten(encrypted')
                    /\ fs'[EnvPath] = NoFile
                    /\ IsFile(fs', ManifestPath)
                    /\ File(secretbox_decrypt(encrypted'.fk, fs'[EncPath][2]).val) = fs[EnvPath]
            /\ ~BothWritten(encrypted') => fs'[EnvPath] = fs[EnvPath]
            /\ (encrypted'.delete /\ Announced(encrypted')) => fs'[EnvPath] = NoFile]_vars

\* A run with --delete has completed: the original is gone and the two
\* files are there.
C28_Witness ==
    /\ encrypted # NoCall /\ encrypted.delete /\ Announced(encrypted)
    /\ encrypted.calls[Len(encrypted.calls)] = "unlink"
    /\ fs[EnvPath] = NoFile
    /\ IsFile(fs, EncPath) /\ IsFile(fs, ManifestPath)

\* A run with --delete was ended between the two writes: the original is
\* still there.
C28_WitnessStopped ==
    /\ encrypted # NoCall /\ encrypted.delete /\ encrypted.exc = "KeyboardInterrupt"
    /\ fs[EnvPath] = encrypted.env /\ IsFile(fs, EnvPath)
    /\ IsFile(fs, EncPath) /\ ~IsFile(fs, ManifestPath)

=============================================================================
